---------------------------- MODULE Spec2Model ----------------------------
(***************************************************************************)
(* Model of aitios-cli: the surfel table cache, the simulation runner's    *)
(* iteration loop with its effect pipeline, and the merge of simulation    *)
(* spec fragments.                                                         *)
(*                                                                         *)
(* Conventions                                                             *)
(*   Option<T>      None is the empty tuple <<>>, Some(v) is <<v>>.        *)
(*   Vec<T>         a sequence; indices of the code are 0-based, so the    *)
(*                  entity at TLA+ position i has the code's index i - 1.  *)
(*   a texture      the image a material map path points to, reduced to    *)
(*                  its dimensions and to who wrote it (src).              *)
(*   surface        the surfel state of the simulation, reduced to the     *)
(*                  number of trace passes that have changed it.           *)
(***************************************************************************)
EXTENDS Integers, Sequences, FiniteSets, TLC

VARIABLES
    pc,                     \* position of the runner: new, run, synth, effects, loop, trace, decide, done, panicked
    panic,                  \* reason of the panic that aborted the runner, "" if none
    spec,                   \* SimulationRunner.spec (effects, iterations, effect_interval)
    entities,               \* SimulationRunner.entities, the baseline
    unique_substance_names, \* SimulationRunner.unique_substance_names
    iteration,              \* SimulationRunner.iteration
    surface,                \* sim.surface()
    surfel_tables,          \* SurfelTableCache.surfel_tables
    work,                   \* the local `entities` of perform_effects, the working copy
    eff,                    \* position in `for effect in &self.spec.effects`
    looped,                 \* number of turns taken of `for _ in 0..self.iterations()`
    events,                 \* history: trace passes and synthesis passes in order
    lookups,                \* history: keys of all lookups issued by run()
    constructed,            \* history: the runner's fields when new() returned
    builds,                 \* history: number of build_surfel_lookup_table calls per key
    lookup_result,          \* cache harness: outcome of the last lookup call
    calls,                  \* cache harness: number of prepare calls made
    builder_spec,           \* SimulationBuilder.spec
    appended,               \* history: fragments appended to the builder, in order
    warnings,               \* history: the warnings logged by append, each named by its field
    grouped,                \* merge of three fragments: the result of each grouping
    args,                   \* init_simulation_builder: the command line and the loop's state
    loaded,                 \* instantiate: the merged spec and the files it refers to
    instance,               \* instantiate: the outcome of each call, in order
    outputs,                \* history: the textures the effects of run() wrote, in order
    bencher,                \* Bencher: its worker_handle and where its owner is
    channel,                \* the messages sent on tx and not yet received by the worker
    sink,                   \* the lines the worker wrote to the sink
    worker,                 \* persist_benchmarks: running or terminated
    benchmarks,             \* the Benchmark handles alive
    measured,               \* history: handles created and dropped, messages sent
    bases,                  \* Resolver.bases
    resolved,               \* history: the outcome of each call of Resolver::resolve
    created,                \* history: the output paths and scenes the effects created
    blended                 \* history: a call of make_guided_blend or blend_output_size

vars == <<pc, panic, spec, entities, unique_substance_names, iteration, surface,
          surfel_tables, work, eff, looped, events, lookups, constructed, builds,
          lookup_result, calls, builder_spec, appended, warnings, grouped, args, loaded,
          instance, outputs, bencher, channel, sink, worker, benchmarks, measured,
          bases, resolved, created, blended>>

runnerVars == <<pc, panic, spec, entities, unique_substance_names, iteration, surface,
                work, eff, looped, events, lookups, constructed>>

cacheVars == <<surfel_tables, builds, lookup_result, calls>>

mergeVars == <<builder_spec, appended, warnings>>

setupVars == <<grouped, args, loaded, instance>>

benchVars == <<bencher, channel, sink, worker, benchmarks, measured>>

fileVars == <<bases, resolved, created, blended>>

-----------------------------------------------------------------------------
(* Bounds of the model *)

MaxEffects == 2
MaxEntities == 2
RunIterations == 2
RunInterval == 1
MaxIterations == 7
MaxInterval == 3
MaxCalls == 3
MaxFragments == 2
MaxArgs == 4
MaxInstantiations == 2

(* Program constants *)

default_bleed == 2
default_iterations == 1

-----------------------------------------------------------------------------
(* Option *)

None == <<>>

Some(v) == <<v>>

IsSome(o) == o # None

Unwrap(o) == o[1]

\* an `or` with its operands exchanged: the receiver is the first fragment's value
OrElseFirstWins(second, first) == IF IsSome(first) THEN first ELSE second

\* Option::or
OrElse(second, first) == IF IsSome(second) THEN second ELSE first

-----------------------------------------------------------------------------
(* SurfelTableCache *)

Nearest(n) == [kind |-> "Nearest", count |-> n]

Within == [kind |-> "Within"]

Key(entity_idx, width, height, count, island_bleed) ==
    [entity_idx |-> entity_idx, width |-> width, height |-> height,
     count |-> count, island_bleed |-> island_bleed]

\* tex::build_surfel_lookup_table, an external function of the entity, the
\* surface and the four parameters
build_surfel_lookup_table(entity, surf, count, width, height, island_bleed) ==
    [of |-> entity.name, surf |-> surf, count |-> count, width |-> width,
     height |-> height, island_bleed |-> island_bleed]

EmptyCache == << >>

\* a cache that holds the table of the last key only
insert_evicting(tables, key, table) ==
    IF key \in DOMAIN tables THEN tables ELSE (key :> table)

\* HashMap::insert: a stored table is replaced
insert_replacing(tables, key, table) ==
    (key :> table) @@ [k \in DOMAIN tables \ {key} |-> tables[k]]

\* HashMap::entry(key).or_insert_with(build): the stored table is kept
or_insert_with(tables, key, table) ==
    IF key \in DOMAIN tables THEN tables ELSE (key :> table) @@ tables

\* SurfelTableCache::prepare; panic is "" when the call returns
prepare(tables, entity_idx, width, height, surfel_lookup, island_bleed, ents, surf) ==
    IF surfel_lookup.kind # "Nearest"
    THEN [panic |-> "unimplemented", tables |-> tables, built |-> FALSE]
    ELSE LET count == surfel_lookup.count
             key == Key(entity_idx, width, height, count, island_bleed)
         IN  [panic |-> "",
              tables |-> or_insert_with(tables, key,
                            build_surfel_lookup_table(ents[entity_idx + 1], surf, count,
                                                      width, height, island_bleed)),
              built |-> key \notin DOMAIN tables]

\* a lookup that answers a missing key with an empty table
lookup_or_empty(tables, entity_idx, width, height, surfel_lookup, island_bleed) ==
    IF surfel_lookup.kind # "Nearest"
    THEN [panic |-> "unimplemented", key |-> None, table |-> None]
    ELSE LET key == Key(entity_idx, width, height, surfel_lookup.count, island_bleed)
         IN  [panic |-> "", key |-> Some(key),
              table |-> IF key \in DOMAIN tables THEN Some(tables[key]) ELSE Some(<<>>)]

\* SurfelTableCache::lookup; panic is "" when a table is returned
lookup(tables, entity_idx, width, height, surfel_lookup, island_bleed) ==
    IF surfel_lookup.kind # "Nearest"
    THEN [panic |-> "unimplemented", key |-> None, table |-> None]
    ELSE LET key == Key(entity_idx, width, height, surfel_lookup.count, island_bleed)
         IN  IF key \in DOMAIN tables
             THEN [panic |-> "", key |-> Some(key), table |-> Some(tables[key])]
             ELSE [panic |-> "lookup_miss", key |-> Some(key), table |-> None]


-----------------------------------------------------------------------------
(* Entities, materials, textures, effect specs *)

LayerChannels == <<"normal", "displacement", "albedo", "metallicity", "roughness">>

Tex(w, h, src) == [w |-> w, h |-> h, src |-> src]

NoMaps == [c \in {"normal", "displacement", "albedo", "metallicity", "roughness"} |-> None]

Material(name, maps) == [name |-> name, maps |-> maps]

Entity(name, material) == [name |-> name, material |-> material]

Stop(cenith, sample) == [cenith |-> cenith, sample |-> sample]

Blend(width, height, stops) == [width |-> width, height |-> height, stops |-> stops]

Density(width, height, surfel_lookup, island_bleed) ==
    [kind |-> "Density", width |-> width, height |-> height,
     surfel_lookup |-> surfel_lookup, island_bleed |-> island_bleed]

Layer(materials, substance, surfel_lookup, island_bleed, blends) ==
    [kind |-> "Layer", materials |-> materials, substance |-> substance,
     surfel_lookup |-> surfel_lookup, island_bleed |-> island_bleed, blends |-> blends]

Export == [kind |-> "Export"]

DumpSurfels == [kind |-> "DumpSurfels"]

\* lexicographic order of image dimensions (w, h), as tuples compare in Rust
DimLeq(a, b) == a[1] < b[1] \/ (a[1] = b[1] /\ a[2] <= b[2])

\* blend.stops.iter().filter_map(|s| s.sample).map(open).max_by_key(dimensions)
RECURSIVE LargestStop(_, _)
LargestStop(stops, best) ==
    IF stops = <<>> THEN best
    ELSE LET s == Head(stops)
         IN  IF IsSome(s.sample)
                /\ (best = None \/ DimLeq(<<Unwrap(best).w, Unwrap(best).h>>,
                                         <<Unwrap(s.sample).w, Unwrap(s.sample).h>>))
             THEN LargestStop(Tail(stops), s.sample)
             ELSE LargestStop(Tail(stops), best)

blend_output_size_stops_first(blend, original_tex_path) ==
    IF IsSome(blend.width) /\ IsSome(blend.height)
    THEN Some(<<Unwrap(blend.width), Unwrap(blend.height)>>)
    ELSE IF IsSome(blend.width)
    THEN Some(<<Unwrap(blend.width), Unwrap(blend.width)>>)
    ELSE IF IsSome(blend.height)
    THEN Some(<<Unwrap(blend.height), Unwrap(blend.height)>>)
    ELSE LET img == OrElse(LargestStop(blend.stops, None), original_tex_path)
         IN  IF IsSome(img) THEN Some(<<Unwrap(img).w, Unwrap(img).h>>) ELSE None

\* blend_output_size; size is None where the code panics
blend_output_size(blend, original_tex_path) ==
    IF IsSome(blend.width) /\ IsSome(blend.height)
    THEN Some(<<Unwrap(blend.width), Unwrap(blend.height)>>)
    ELSE IF IsSome(blend.width)
    THEN Some(<<Unwrap(blend.width), Unwrap(blend.width)>>)
    ELSE IF IsSome(blend.height)
    THEN Some(<<Unwrap(blend.height), Unwrap(blend.height)>>)
    ELSE LET img == OrElse(original_tex_path, LargestStop(blend.stops, None))
         IN  IF IsSome(img) THEN Some(<<Unwrap(img).w, Unwrap(img).h>>) ELSE None

is_entity_applicable_for_named_materials(entity, materials) ==
    \/ materials = <<>>
    \/ \E i \in 1..Len(materials) : materials[i] = entity.material.name

\* is_entity_applicable_for_materials
is_entity_applicable_for_materials(entity, materials) ==
    \/ materials = <<>>
    \/ \E i \in 1..Len(materials) :
          materials[i] = "_" \/ materials[i] = entity.material.name

\* SimulationRunner::make_guided_blend: "" or the reason of its panic
make_guided_blend_panic(blend, original_map) ==
    IF original_map = None /\ blend.stops = <<>>
    THEN "no_stops_no_original"
    ELSE IF \E i \in 1..Len(blend.stops) :
               OrElse(blend.stops[i].sample, original_map) = None
    THEN "stop_without_texture"
    ELSE ""

-----------------------------------------------------------------------------
(* build_surfel_tables *)

\* the prepare calls of one entity for the channels of one Layer effect, from channel c on
RECURSIVE PrepareChannels(_, _, _, _, _, _)
PrepareChannels(st, effect, ents, idx, surf, c) ==
    IF c > Len(LayerChannels) \/ st.panic # "" THEN st
    ELSE LET ch == LayerChannels[c]
             blend == effect.blends[ch]
         IN  IF blend = None
             THEN PrepareChannels(st, effect, ents, idx, surf, c + 1)
             ELSE LET size == blend_output_size(Unwrap(blend), ents[idx + 1].material.maps[ch])
                  IN  IF size = None
                      THEN [st EXCEPT !.panic = "no_output_size"]
                      ELSE PrepareChannels(
                               prepare(st.tables, idx, Unwrap(size)[1], Unwrap(size)[2],
                                       effect.surfel_lookup, effect.island_bleed, ents, surf),
                               effect, ents, idx, surf, c + 1)

\* the prepare calls of one effect, from the entity with index idx on
RECURSIVE PrepareEntities(_, _, _, _, _)
PrepareEntities(st, effect, ents, idx, surf) ==
    IF idx >= Len(ents) \/ st.panic # "" THEN st
    ELSE IF effect.kind = "Layer"
    THEN IF is_entity_applicable_for_materials(ents[idx + 1], effect.materials)
         THEN PrepareEntities(PrepareChannels(st, effect, ents, idx, surf, 1),
                              effect, ents, idx + 1, surf)
         ELSE PrepareEntities(st, effect, ents, idx + 1, surf)
    ELSE IF effect.kind = "Density"
    THEN PrepareEntities(prepare(st.tables, idx, effect.width, effect.height,
                                 effect.surfel_lookup, effect.island_bleed, ents, surf),
                         effect, ents, idx + 1, surf)
    ELSE st

RECURSIVE PrepareEffects(_, _, _, _, _)
PrepareEffects(st, effects, ents, surf, e) ==
    IF e > Len(effects) \/ st.panic # "" THEN st
    ELSE PrepareEffects(PrepareEntities(st, effects[e], ents, 0, surf),
                        effects, ents, surf, e + 1)

build_surfel_tables(effects, ents, surf) ==
    PrepareEffects([panic |-> "", tables |-> EmptyCache, built |-> FALSE],
                   effects, ents, surf, 1)

-----------------------------------------------------------------------------
(* The effects of a synthesis pass.  A pass threads a record                  *)
(* [panic, looked, ents, written]: the reason of a panic ("" if none), the   *)
(* keys of the lookups issued so far, the working copy of the entities and   *)
(* the density textures written so far.                                      *)

\* the key a lookup call asks for, as a set (empty for an unsupported policy)
LookedKey(res) == IF IsSome(res.key) THEN {Unwrap(res.key)} ELSE {}

\* SimulationRunner::perform_blend for one channel of one entity: the texture
\* written (tex), the key looked up and the reason of a panic
perform_blend(tables, original_map, blend, entity_idx, surfel_lookup, island_bleed, e) ==
    LET size == blend_output_size(blend, original_map)
    IN  IF size = None
        THEN [panic |-> "no_output_size", looked |-> {}, tex |-> None]
        ELSE LET res == lookup(tables, entity_idx, Unwrap(size)[1], Unwrap(size)[2],
                               surfel_lookup, island_bleed)
             IN  IF res.panic # ""
                 THEN [panic |-> res.panic, looked |-> LookedKey(res), tex |-> None]
                 ELSE IF make_guided_blend_panic(blend, original_map) # ""
                 THEN [panic |-> make_guided_blend_panic(blend, original_map),
                       looked |-> LookedKey(res), tex |-> None]
                 ELSE [panic |-> "", looked |-> LookedKey(res),
                       tex |-> Some(Tex(Unwrap(size)[1], Unwrap(size)[2], e))]

\* the channels of one entity from channel c on; mat is the MaterialBuilder,
\* entity.material stays the material the entity had when the effect reached it
RECURSIVE BlendChannels(_, _, _, _, _, _, _)
BlendChannels(st, tables, effect, entity, idx, e, c) ==
    IF c > Len(LayerChannels) \/ st.panic # "" THEN st
    ELSE LET ch == LayerChannels[c]
             blend == effect.blends[ch]
         IN  IF blend = None
             THEN BlendChannels(st, tables, effect, entity, idx, e, c + 1)
             ELSE LET r == perform_blend(tables, entity.material.maps[ch], Unwrap(blend),
                                         idx, effect.surfel_lookup, effect.island_bleed, e)
                  IN  BlendChannels(
                          [panic |-> r.panic,
                           looked |-> st.looked \cup r.looked,
                           mat |-> IF r.panic = "" THEN [st.mat EXCEPT ![ch] = r.tex]
                                   ELSE st.mat],
                          tables, effect, entity, idx, e, c + 1)

\* the entities of perform_layer, from the entity with index idx on
RECURSIVE LayerEntities(_, _, _, _, _)
LayerEntities(st, tables, effect, idx, e) ==
    IF idx >= Len(st.ents) \/ st.panic # "" THEN st
    ELSE LET entity == st.ents[idx + 1]
         IN  IF is_entity_applicable_for_materials(entity, effect.materials)
             THEN LET r == BlendChannels([panic |-> "", looked |-> st.looked,
                                          mat |-> entity.material.maps],
                                         tables, effect, entity, idx, e, 1)
                  IN  LayerEntities(
                          [panic |-> r.panic, looked |-> r.looked,
                           ents |-> IF r.panic = ""
                                    THEN [st.ents EXCEPT ![idx + 1].material.maps = r.mat]
                                    ELSE st.ents,
                           written |-> st.written, exported |-> st.exported],
                          tables, effect, idx + 1, e)
             ELSE LayerEntities(st, tables, effect, idx + 1, e)

\* SimulationRunner::perform_layer
perform_layer(st, tables, names, effect, e) ==
    IF \A i \in 1..Len(names) : names[i] # effect.substance
    THEN [st EXCEPT !.panic = "no_substance"]
    ELSE LayerEntities(st, tables, effect, 0, e)

\* a scene persisted by export_scene with both patterns configured: the
\* entities with their materials, under the value given for {substance}
Scene(e, substance, ents) == [effect |-> e, substance |-> substance, entities |-> ents]

\* the lazy copy of the baseline that perform_density exports: every entity
\* with a fresh material whose diffuse colour map is its density texture
density_scene(base, effect, substance_name, e) ==
    [i \in 1..Len(base) |->
        Entity(base[i].name,
               Material(substance_name \o "-density-" \o ToString(i - 1) \o "-" \o base[i].name,
                        [NoMaps EXCEPT !["albedo"] = Some(Tex(effect.width, effect.height, e))]))]

\* the texture perform_density writes for one substance and one entity
DensityTexture(e, substance_name, ent_idx, entity, width, height) ==
    [effect |-> e, substance |-> substance_name, id |-> ent_idx, entity |-> entity.name,
     width |-> width, height |-> height]

\* the entities of one substance of perform_density, from the entity with index idx on
RECURSIVE DensityEntities(_, _, _, _, _, _, _)
DensityEntities(st, tables, base, effect, idx, substance_name, e) ==
    IF idx >= Len(base) \/ st.panic # "" THEN st
    ELSE LET res == lookup(tables, idx, effect.width, effect.height,
                           effect.surfel_lookup, effect.island_bleed)
         IN  DensityEntities(
                 [st EXCEPT !.panic = res.panic,
                            !.looked = st.looked \cup LookedKey(res),
                            !.written = IF res.panic # "" THEN st.written
                                        ELSE Append(st.written,
                                                    DensityTexture(e, substance_name, idx,
                                                                   base[idx + 1], effect.width,
                                                                   effect.height))],
                 tables, base, effect, idx + 1, substance_name, e)

\* SimulationRunner::perform_density: for every substance, every entity of the
\* baseline (self.entities), never the working copy
RECURSIVE perform_density(_, _, _, _, _, _, _)
perform_density(st, tables, base, names, effect, s, e) ==
    IF s > Len(names) \/ st.panic # "" THEN st
    ELSE LET textured == DensityEntities(st, tables, base, effect, 0, names[s], e)
         IN  perform_density(
                 IF textured.panic # "" THEN textured
                 ELSE [textured EXCEPT
                          !.exported = Append(@, Scene(e, names[s],
                                                       density_scene(base, effect, names[s], e)))],
                 tables, base, names, effect, s + 1, e)

perform_effect_exporting_baseline(st, tables, base, names, effect, e) ==
    IF effect.kind = "Density" THEN perform_density(st, tables, base, names, effect, 1, e)
    ELSE IF effect.kind = "Layer" THEN perform_layer(st, tables, names, effect, e)
    ELSE IF effect.kind = "Export"
    THEN [st EXCEPT !.exported = Append(@, Scene(e, "all", base))]
    ELSE st

\* SimulationRunner::perform_effect
perform_effect(st, tables, base, names, effect, e) ==
    IF effect.kind = "Density" THEN perform_density(st, tables, base, names, effect, 1, e)
    ELSE IF effect.kind = "Layer" THEN perform_layer(st, tables, names, effect, e)
    ELSE IF effect.kind = "Export"
    THEN [st EXCEPT !.exported = Append(@, Scene(e, "all", st.ents))]
    ELSE st

-----------------------------------------------------------------------------
(* Merging spec fragments: builder::append *)

\* a text is a sequence of characters
Whitespace == {" ", "\n", "\t"}

RECURSIVE TrimStart(_)
TrimStart(t) == IF t # <<>> /\ Head(t) \in Whitespace THEN TrimStart(Tail(t)) ELSE t

RECURSIVE TrimEnd(_)
TrimEnd(t) ==
    IF t # <<>> /\ t[Len(t)] \in Whitespace THEN TrimEnd(SubSeq(t, 1, Len(t) - 1)) ELSE t

\* str::trim
Trim(t) == TrimEnd(TrimStart(t))

\* a text merge that puts the delimiter between the sides even when one is empty
append_textual_joined(first, second, delimiter) ==
    Trim(first) \o delimiter \o Trim(second)

\* append_textual
append_textual(first, second, delimiter) ==
    IF Trim(first) = <<>> /\ Trim(second) = <<>> THEN <<>>
    ELSE IF Trim(second) = <<>> THEN Trim(first)
    ELSE IF Trim(first) = <<>> THEN Trim(second)
    ELSE Trim(first) \o delimiter \o Trim(second)

\* a list merge that skips the entries the first list holds already
RECURSIVE append_list_unique(_, _)
append_list_unique(first, second) ==
    IF second = <<>> THEN first
    ELSE IF \E i \in 1..Len(first) : first[i] = Head(second)
    THEN append_list_unique(first, Tail(second))
    ELSE append_list_unique(Append(first, Head(second)), Tail(second))

\* append_list: first.extend(second.cloned())
append_list(first, second) == first \o second

\* append_surfel_distance
append_surfel_distance(first, second) ==
    IF IsSome(first) /\ IsSome(second) THEN second ELSE OrElse(second, first)

\* append_log
append_log(first, second) ==
    IF IsSome(first) /\ IsSome(second)
    THEN IF first = second THEN first ELSE second
    ELSE OrElse(second, first)

\* second_or_first of append_benchmark
second_or_first(first, second) == OrElse(second, first)

\* a benchmark merge that keeps a benchmark spec only when both sides or second have one
append_benchmark_dropping(first, second) ==
    IF IsSome(first) /\ IsSome(second)
    THEN Some([iterations |-> second_or_first(Unwrap(first).iterations, Unwrap(second).iterations),
               tracing |-> second_or_first(Unwrap(first).tracing, Unwrap(second).tracing),
               synthesis |-> second_or_first(Unwrap(first).synthesis, Unwrap(second).synthesis),
               setup |-> second_or_first(Unwrap(first).setup, Unwrap(second).setup)])
    ELSE second

\* append_benchmark
append_benchmark(first, second) ==
    IF IsSome(first) /\ IsSome(second)
    THEN Some([iterations |-> second_or_first(Unwrap(first).iterations, Unwrap(second).iterations),
               tracing |-> second_or_first(Unwrap(first).tracing, Unwrap(second).tracing),
               synthesis |-> second_or_first(Unwrap(first).synthesis, Unwrap(second).synthesis),
               setup |-> second_or_first(Unwrap(first).setup, Unwrap(second).setup)])
    ELSE IF IsSome(first) THEN first
    ELSE IF IsSome(second) THEN second
    ELSE None

\* a map merge that keeps the entry it holds already
extend_keeping(first, second) == first @@ second

\* HashMap::extend: the entries of second replace those of first with the same key
extend(first, second) == second @@ first

\* append: the merged spec
append(first, second) ==
    [name |-> append_textual(first.name, second.name, <<"-">>),
     description |-> append_textual(first.description, second.description, <<"\n", "\n">>),
     scenes |-> append_list(first.scenes, second.scenes),
     iterations |-> OrElse(second.iterations, first.iterations),
     effect_interval |-> OrElse(second.effect_interval, first.effect_interval),
     log |-> append_log(first.log, second.log),
     surfel_distance |-> append_surfel_distance(first.surfel_distance, second.surfel_distance),
     sources |-> append_list(first.sources, second.sources),
     surfels_by_material |-> extend(first.surfels_by_material, second.surfels_by_material),
     effects |-> append_list(first.effects, second.effects),
     benchmark |-> append_benchmark(first.benchmark, second.benchmark),
     consistent_transport |-> OrElse(second.consistent_transport, first.consistent_transport)]

\* an f32: a number of hundredths, or not a number
f32(hundredths) == [nan |-> FALSE, val |-> hundredths]

NaN == [nan |-> TRUE, val |-> 0]

\* f32 PartialEq::ne: a NaN differs from every value, itself included
f32_ne(a, b) == a.nan \/ b.nan \/ a.val # b.val

\* a comparison that leaves out the equal values
f32_lt(a, b) == ~a.nan /\ ~b.nan /\ a.val < b.val

\* f32 PartialOrd::le: no comparison with a NaN holds
f32_le(a, b) == ~a.nan /\ ~b.nan /\ a.val <= b.val

\* both fragments define the value and the values differ
Conflict(first, second) == IsSome(first) /\ IsSome(second) /\ first # second

\* both fragments define a surfel distance and first != second
ConflictF32(first, second) ==
    IsSome(first) /\ IsSome(second) /\ f32_ne(Unwrap(first), Unwrap(second))

\* a merge that warns whenever both fragments define a field
append_warnings_always(first, second) ==
    (IF IsSome(first.iterations) /\ IsSome(second.iterations)
     THEN <<"iterations">> ELSE <<>>)
    \o (IF IsSome(first.log) /\ IsSome(second.log) THEN <<"log">> ELSE <<>>)
    \o (IF IsSome(first.surfel_distance) /\ IsSome(second.surfel_distance)
        THEN <<"surfel_distance">> ELSE <<>>)

\* append: the warn! calls of one merge, in the order they are made, each named by its field
append_warnings(first, second) ==
    (IF Conflict(first.iterations, second.iterations) THEN <<"iterations">> ELSE <<>>)
    \o (IF Conflict(first.log, second.log) THEN <<"log">> ELSE <<>>)
    \o (IF ConflictF32(first.surfel_distance, second.surfel_distance)
        THEN <<"surfel_distance">> ELSE <<>>)

\* Default for SimulationSpec, with the fields append builds
DefaultSpec ==
    [name |-> <<>>, description |-> <<>>, scenes |-> <<>>, iterations |-> None,
     effect_interval |-> None, log |-> None, surfel_distance |-> None, sources |-> <<>>,
     surfels_by_material |-> << >>, effects |-> <<>>, benchmark |-> None,
     consistent_transport |-> None]

-----------------------------------------------------------------------------
(* The inputs of the runner *)

BaseTex(w, h) == Tex(w, h, 0)

Iron == Material("iron", [NoMaps EXCEPT !["albedo"] = Some(BaseTex(1, 1))])

Stone == Material("stone", NoMaps)

EntityInputs == {Entity(m.name, m) : m \in {Iron, Stone}}

EntityLists == UNION {[1..n -> EntityInputs] : n \in 1..MaxEntities}

\* a blend with a configured width: output 2 x 2 whatever the material
BlendSized == Blend(Some(2), None, <<Stop(1, Some(BaseTex(1, 1)))>>)

\* a blend without configured size: output size of the original map, else of the largest stop
BlendDerived ==
    Blend(None, None, <<Stop(0, Some(BaseTex(1, 1))), Stop(1, Some(BaseTex(2, 1)))>>)

\* a blend without size and stops: needs the original map
BlendBare == Blend(None, None, <<>>)

\* a blend with configured width and height whose only stop has no sample
BlendNoSample == Blend(Some(1), Some(2), <<Stop(1, None)>>)

NoBlends == [c \in DOMAIN NoMaps |-> None]

EffectInputs ==
    { Layer(<<>>, "rust", Nearest(1), default_bleed,
            [NoBlends EXCEPT !["albedo"] = Some(BlendSized)]),
      Layer(<<>>, "rust", Nearest(2), default_bleed,
            [NoBlends EXCEPT !["albedo"] = Some(BlendDerived)]),
      Layer(<<"iron">>, "rust", Nearest(1), 0,
            [NoBlends EXCEPT !["albedo"] = Some(BlendBare), !["normal"] = Some(BlendNoSample)]),
      Layer(<<"_">>, "salt", Nearest(1), default_bleed,
            [NoBlends EXCEPT !["roughness"] = Some(BlendSized)]),
      Layer(<<"stone">>, "rust", Within, default_bleed,
            [NoBlends EXCEPT !["albedo"] = Some(BlendSized)]),
      Density(2, 2, Nearest(2), default_bleed),
      Export,
      DumpSurfels }

EffectLists == UNION {[1..n -> EffectInputs] : n \in 1..MaxEffects}

SubstanceNames == <<"humidity", "rust">>

-----------------------------------------------------------------------------
(* SimulationRunner *)

\* an iteration count that defaults to no iteration
iterations_or_zero(sp) == IF IsSome(sp.iterations) THEN Unwrap(sp.iterations) ELSE 0

\* SimulationRunner::iterations
iterations(sp) == IF IsSome(sp.iterations) THEN Unwrap(sp.iterations) ELSE default_iterations

\* a schedule that does not force the last iteration
effects_scheduled_unforced(it, effect_interval, its) ==
    IsSome(effect_interval) /\ it % Unwrap(effect_interval) = 0

\* `effects_scheduled` of perform_iteration, for an interval that is not 0
effects_scheduled(it, effect_interval, its) ==
    IF IsSome(effect_interval) /\ it % Unwrap(effect_interval) = 0
    THEN TRUE
    ELSE it = its

\* a runner that goes on with the working copy of the pass before
FreshCopyReused(base, prev) == IF prev = <<>> THEN base ELSE prev

\* `self.entities.clone()` of perform_effects; prev is what the pass before left of its
\* working copy, which the code has dropped
FreshCopy(base, prev) == base

Event(kind, it) == [kind |-> kind, it |-> it]

PassSamplesAfterTracing(it) ==
    IF it > 0 THEN <<Event("synthesis_sample", it), Event("iteration_sample", it)>> ELSE <<>>

\* the samples that the end of perform_effects enqueues: _synthesis_bench is
\* dropped, then (inside perform_iteration) _iteration_bench
PassSamples(it) ==
    <<Event("synthesis_sample", it)>>
        \o (IF it > 0 THEN <<Event("iteration_sample", it)>> ELSE <<>>)

\* a panic drops the live benchmark handles when the build unwinds, and
\* drops nothing when it aborts
PanicSamples(live) == {<<>>, live}

\* SimulationRunner::new
New ==
    /\ pc = "new"
    /\ LET st == build_surfel_tables(spec.effects, entities, surface)
       IN  IF st.panic # ""
           THEN /\ pc' = "panicked"
                /\ panic' = st.panic
                /\ UNCHANGED <<surfel_tables, constructed>>
           ELSE /\ pc' = "run"
                /\ surfel_tables' = st.tables
                /\ constructed' = Some([entities |-> entities,
                                        names |-> unique_substance_names,
                                        tables |-> st.tables])
                /\ UNCHANGED panic
    /\ UNCHANGED <<spec, entities, unique_substance_names, iteration, surface, work, eff,
                   looped, events, lookups, builds, lookup_result, calls, mergeVars, setupVars,
                   outputs, benchVars, fileVars>>

\* run(): `self.iteration = 0` and the call of perform_effects
Run ==
    /\ pc = "run"
    /\ iteration' = 0
    /\ pc' = "synth"
    /\ UNCHANGED <<panic, spec, entities, unique_substance_names, surface, work, eff, looped,
                   events, lookups, constructed, cacheVars, mergeVars, setupVars,
                   outputs, benchVars, fileVars>>

\* perform_effects: the fresh copy of the scene
BeginEffects ==
    /\ pc = "synth"
    /\ work' = FreshCopy(entities, work)
    /\ eff' = 1
    /\ events' = Append(events, Event("effects", iteration))
                  \o (IF spec.effects = <<>> THEN PassSamples(iteration) ELSE <<>>)
    /\ pc' = IF spec.effects = <<>> THEN "loop" ELSE "effects"
    /\ UNCHANGED <<panic, spec, entities, unique_substance_names, iteration, surface, looped,
                   lookups, constructed, cacheVars, mergeVars, setupVars, outputs, benchVars, fileVars>>

\* perform_effects: one turn of `for effect in &self.spec.effects`
PerformEffect ==
    /\ pc = "effects"
    /\ LET st == perform_effect([panic |-> "", looked |-> {}, ents |-> work,
                                 written |-> <<>>, exported |-> <<>>],
                                surfel_tables, entities, unique_substance_names,
                                spec.effects[eff], eff)
       IN  /\ lookups' = lookups \cup st.looked
           /\ created' = created \o [i \in 1..Len(st.exported) |->
                                        [iteration |-> iteration, scene |-> st.exported[i]]]
           /\ outputs' = outputs \o [i \in 1..Len(st.written) |->
                                        [iteration |-> iteration, file |-> st.written[i]]]
           /\ IF st.panic # ""
              THEN /\ pc' = "panicked"
                   /\ panic' = st.panic
                   /\ \E dropped \in PanicSamples(PassSamples(iteration)) :
                          events' = events \o dropped
                   /\ UNCHANGED <<work, eff>>
              ELSE /\ pc' = IF eff = Len(spec.effects) THEN "loop" ELSE "effects"
                   /\ work' = st.ents
                   /\ eff' = eff + 1
                   /\ events' = events \o (IF eff = Len(spec.effects)
                                            THEN PassSamples(iteration) ELSE <<>>)
                   /\ UNCHANGED panic
    /\ UNCHANGED <<spec, entities, unique_substance_names, iteration, surface, looped,
                   constructed, cacheVars, mergeVars, setupVars, benchVars, bases, resolved,
                   blended>>

\* run(): one turn of `for _ in 0..self.iterations()`, or its end
Loop ==
    /\ pc = "loop"
    /\ IF looped < iterations(spec)
       THEN /\ looped' = looped + 1
            /\ iteration' = iteration + 1
            /\ pc' = "trace"
       ELSE /\ pc' = "done"
            /\ UNCHANGED <<looped, iteration>>
    /\ UNCHANGED <<panic, spec, entities, unique_substance_names, surface, work, eff, events,
                   lookups, constructed, cacheVars, mergeVars, setupVars, outputs, benchVars, fileVars>>

\* a trace pass that invalidates the surfel tables
TraceInvalidating ==
    /\ pc = "trace"
    /\ surface' = surface + 1
    /\ events' = events \o <<Event("trace", iteration), Event("tracing_sample", iteration)>>
    /\ pc' = "decide"
    /\ surfel_tables' = EmptyCache
    /\ UNCHANGED <<panic, spec, entities, unique_substance_names, iteration, work, eff, looped,
                   lookups, constructed, builds, lookup_result, calls, mergeVars, setupVars,
                   outputs, benchVars, fileVars>>

\* perform_iteration: `self.sim.run()`
Trace ==
    /\ pc = "trace"
    /\ surface' = surface + 1
    /\ events' = events \o <<Event("trace", iteration), Event("tracing_sample", iteration)>>
    /\ pc' = "decide"
    /\ UNCHANGED <<panic, spec, entities, unique_substance_names, iteration, work, eff, looped,
                   lookups, constructed, cacheVars, mergeVars, setupVars, outputs, benchVars, fileVars>>

\* perform_iteration: `effects_scheduled`; the remainder by an interval of 0 panics
Decide ==
    /\ pc = "decide"
    /\ IF spec.effect_interval = Some(0)
       THEN /\ pc' = "panicked"
            /\ panic' = "remainder_by_zero"
            /\ \E dropped \in PanicSamples(<<Event("iteration_sample", iteration)>>) :
                   events' = events \o dropped
       ELSE IF effects_scheduled(iteration, spec.effect_interval, iterations(spec))
       THEN /\ pc' = "synth"
            /\ UNCHANGED <<panic, events>>
       ELSE /\ pc' = "loop"
            /\ events' = Append(events, Event("iteration_sample", iteration))
            /\ UNCHANGED panic
    /\ UNCHANGED <<spec, entities, unique_substance_names, iteration, surface, work, eff,
                   looped, lookups, constructed, cacheVars, mergeVars, setupVars,
                   outputs, benchVars, fileVars>>

IdleCache ==
    /\ surfel_tables = EmptyCache
    /\ builds = << >>
    /\ lookup_result = None
    /\ calls = 0

IdleMerge ==
    /\ builder_spec = DefaultSpec
    /\ appended = <<>>
    /\ warnings = <<>>

IdleSetup ==
    /\ grouped = [left |-> None, right |-> None]
    /\ args = None
    /\ loaded = None
    /\ instance = <<>>

IdleFiles ==
    /\ bases = <<>>
    /\ resolved = <<>>
    /\ created = <<>>
    /\ blended = <<>>

IdleBench ==
    /\ bencher = None
    /\ channel = <<>>
    /\ sink = <<>>
    /\ worker = "none"
    /\ benchmarks = {}
    /\ measured = None

InitRunner(effectLists, entityLists, iterationCounts, intervals) ==
    /\ pc = "new"
    /\ panic = ""
    /\ spec \in [effects : effectLists, iterations : iterationCounts,
                 effect_interval : intervals]
    /\ entities \in entityLists
    /\ unique_substance_names = SubstanceNames
    /\ iteration = 0
    /\ surface = 0
    /\ work = <<>>
    /\ eff = 0
    /\ looped = 0
    /\ events = <<>>
    /\ lookups = {}
    /\ constructed = None
    /\ IdleCache
    /\ IdleBench
    /\ IdleFiles
    /\ outputs = <<>>
    /\ IdleMerge
    /\ IdleSetup

\* all effect lists and entity lists, few schedules
Init ==
    InitRunner(EffectLists, EntityLists, {None, Some(RunIterations)},
               {None, Some(RunInterval)})

Next == New \/ Run \/ BeginEffects \/ PerformEffect \/ Loop \/ Trace \/ Decide

Spec == Init /\ [][Next]_vars

\* all schedules, a scene of one entity and one of two
InitSched ==
    InitRunner({<<Density(2, 2, Nearest(2), default_bleed)>>, <<Export, DumpSurfels>>},
               {<<Entity("iron", Iron)>>, <<Entity("iron", Iron), Entity("stone", Stone)>>},
               {None} \cup {Some(n) : n \in 0..MaxIterations},
               {None} \cup {Some(k) : k \in 0..MaxInterval})

SpecSched == InitSched /\ [][Next]_vars

-----------------------------------------------------------------------------
(* Claims about the schedule of run() *)

EventsOf(kind) == {j \in 1..Len(events) : events[j].kind = kind}

\* the iterations at which a synthesis pass has been started
SynthAt == {events[j].it : j \in EventsOf("effects")}

\* the iteration count of the spec, 1 if unspecified
CountN == IF spec.iterations = None THEN 1 ELSE Unwrap(spec.iterations)

\* the iterations at which the pipeline is due: 0, the multiples of the interval, the last
Due ==
    {0} \cup {CountN}
        \cup {i \in 1..CountN : /\ spec.effect_interval # None
                                /\ Unwrap(spec.effect_interval) > 0
                                /\ i % Unwrap(spec.effect_interval) = 0}

\* C1: with N >= 1 iterations and an interval k >= 1 or none, the effect pipeline is
\* applied once at iteration 0, at every iteration that k divides and at iteration N,
\* and at no other iteration: every pass started is due, none is started twice, every
\* due iteration the runner has left has had its pass, and a finished run has had all.
C1_EffectSchedule ==
    (CountN >= 1 /\ spec.effect_interval # Some(0)) =>
        /\ SynthAt \subseteq Due
        /\ \A i, j \in EventsOf("effects") : events[i].it = events[j].it => i = j
        /\ \A i \in Due : i < iteration => i \in SynthAt
        /\ pc = "done" => SynthAt = Due

\* the spec's example: interval 3 and 7 iterations give passes at 0, 3, 6 and 7
C1_Witness ==
    /\ pc = "done"
    /\ spec.iterations = Some(7)
    /\ spec.effect_interval = Some(3)
    /\ SynthAt = {0, 3, 6, 7}

\* C2: no trace pass happens at iteration 0; every iteration 1..N has exactly one trace
\* pass, which is over when the effect decision of that iteration is taken and before
\* its synthesis pass starts; a finished run has made exactly N trace passes, N being 1
\* when the iteration count is unspecified.
C2_TracePasses ==
    /\ \A j \in EventsOf("trace") : events[j].it >= 1 /\ events[j].it <= CountN
    /\ \A i, j \in EventsOf("trace") : events[i].it = events[j].it => i = j
    /\ \A j \in EventsOf("effects") :
          events[j].it >= 1 => \E i \in 1..(j - 1) : events[i] = Event("trace", events[j].it)
    /\ pc \in {"decide", "synth", "effects"} /\ iteration >= 1 =>
          \E i \in EventsOf("trace") : events[i].it = iteration
    /\ pc = "trace" => \A i \in EventsOf("trace") : events[i].it < iteration
    /\ pc = "done" => {events[j].it : j \in EventsOf("trace")} = 1..CountN

\* a run without iteration count has finished after one trace pass
C2_Witness ==
    /\ pc = "done"
    /\ spec.iterations = None
    /\ Cardinality(EventsOf("trace")) = 1
    /\ Cardinality(EventsOf("effects")) = 2

-----------------------------------------------------------------------------
(* Claims about the cache in the runner *)

\* C3: every lookup issued during run() asks for a key that build_surfel_tables
\* prepared at construction, so no lookup misses.
C3_NoLookupMiss == lookups \subseteq DOMAIN surfel_tables

-----------------------------------------------------------------------------
(* SurfelTableCache on its own: any sequence of prepare and lookup calls *)

\* the arguments of the calls: one key and every change of one of its components,
\* and the policy the cache does not support
CacheArgs ==
    LET base == [entity_idx |-> 0, width |-> 1, height |-> 1,
                 surfel_lookup |-> Nearest(1), island_bleed |-> default_bleed]
    IN  {base,
         [base EXCEPT !.entity_idx = MaxEntities - 1],
         [base EXCEPT !.width = 2],
         [base EXCEPT !.height = 2],
         [base EXCEPT !.surfel_lookup = Nearest(2)],
         [base EXCEPT !.island_bleed = 0],
         [base EXCEPT !.surfel_lookup = Within]}

\* the key the cache derives from the arguments of a call with a supported policy
KeyOf(a) == Key(a.entity_idx, a.width, a.height, a.surfel_lookup.count, a.island_bleed)

\* a call of prepare; the surface handed in is any state of the surface.  A panic
\* (unsupported policy) happens before the cache is touched.
CachePrepare ==
    /\ pc = "cache"
    /\ calls < MaxCalls
    /\ \E a \in CacheArgs, s \in {0, 1} :
          LET r == prepare(surfel_tables, a.entity_idx, a.width, a.height, a.surfel_lookup,
                           a.island_bleed, entities, s)
          IN  /\ surface' = s
              /\ surfel_tables' = r.tables
              /\ builds' =
                    IF r.panic # "" THEN builds
                    ELSE LET k == KeyOf(a)
                             t == build_surfel_lookup_table(entities[a.entity_idx + 1], s,
                                     a.surfel_lookup.count, a.width, a.height, a.island_bleed)
                         IN  IF k \in DOMAIN builds
                             THEN [builds EXCEPT ![k].calls = @ + 1,
                                                 ![k].n = @ + (IF r.built THEN 1 ELSE 0),
                                                 ![k].last_surf = s]
                             ELSE (k :> [calls |-> 1, n |-> IF r.built THEN 1 ELSE 0,
                                         first |-> t, last_surf |-> s]) @@ builds
    /\ calls' = calls + 1
    /\ UNCHANGED <<pc, panic, spec, entities, unique_substance_names, iteration, work, eff,
                   looped, events, lookups, constructed, lookup_result, mergeVars, setupVars,
                   outputs, benchVars, fileVars>>

\* a call of lookup
CacheLookup ==
    /\ pc = "cache"
    /\ \E a \in CacheArgs :
          lookup_result' = Some([args |-> a,
                                 prepared |-> DOMAIN builds,
                                 res |-> lookup(surfel_tables, a.entity_idx, a.width, a.height,
                                                a.surfel_lookup, a.island_bleed)])
    /\ UNCHANGED <<runnerVars, surfel_tables, builds, calls, mergeVars, setupVars,
                   outputs, benchVars, fileVars>>

InitCache ==
    /\ pc = "cache"
    /\ panic = ""
    /\ spec = [effects |-> <<>>, iterations |-> None, effect_interval |-> None]
    /\ entities = [i \in 1..MaxEntities |-> Entity("stone", Stone)]
    /\ unique_substance_names = SubstanceNames
    /\ iteration = 0
    /\ surface = 0
    /\ work = <<>>
    /\ eff = 0
    /\ looped = 0
    /\ events = <<>>
    /\ lookups = {}
    /\ constructed = None
    /\ IdleCache
    /\ IdleBench
    /\ IdleFiles
    /\ outputs = <<>>
    /\ IdleMerge
    /\ IdleSetup

NextCache == CachePrepare \/ CacheLookup

SpecCache == InitCache /\ [][NextCache]_vars

\* the last lookup asked for a key with a supported policy
LookedUp == lookup_result # None /\ Unwrap(lookup_result).res.key # None

LastKey == Unwrap(Unwrap(lookup_result).res.key)

LastRes == Unwrap(lookup_result).res

\* the keys prepare had been called with when the last lookup was made
LastPrepared == Unwrap(lookup_result).prepared

\* C4: once prepare has been called for a key, every lookup with the same five
\* components succeeds and returns the table built by the first prepare of that key,
\* whatever prepare calls follow.
C4_PrepareThenLookup ==
    /\ \A k \in DOMAIN builds :
          LET r == lookup(surfel_tables, k.entity_idx, k.width, k.height, Nearest(k.count),
                          k.island_bleed)
          IN  r.panic = "" /\ r.table = Some(builds[k].first)
    /\ (LookedUp /\ LastKey \in LastPrepared) =>
          LastRes.panic = "" /\ LastRes.table = Some(builds[LastKey].first)

\* a lookup hit on a key that was prepared again with another surface, with another key
\* prepared as well
C4_Witness ==
    /\ LookedUp
    /\ LastRes.panic = ""
    /\ LastKey \in LastPrepared
    /\ builds[LastKey].calls >= 2
    /\ builds[LastKey].last_surf # builds[LastKey].first.surf
    /\ Cardinality(DOMAIN surfel_tables) >= 2

\* C5: a lookup for a key that prepare was never called with panics and returns no
\* table; a table that is returned is the table of exactly the key asked for.
C5_LookupMissPanics ==
    LookedUp =>
        /\ LastKey \notin LastPrepared => LastRes.panic = "lookup_miss" /\ LastRes.table = None
        /\ LastRes.table # None =>
              /\ LastKey \in LastPrepared
              /\ Unwrap(LastRes.table).width = LastKey.width
              /\ Unwrap(LastRes.table).height = LastKey.height
              /\ Unwrap(LastRes.table).count = LastKey.count
              /\ Unwrap(LastRes.table).island_bleed = LastKey.island_bleed

\* a miss on a key of which only the neighbor count or only the island bleed differs
\* from a prepared key
C5_Witness ==
    /\ LookedUp
    /\ LastRes.panic = "lookup_miss"
    /\ \E k \in LastPrepared :
          /\ k.entity_idx = LastKey.entity_idx
          /\ k.width = LastKey.width
          /\ k.height = LastKey.height
          /\ k.count # LastKey.count
    /\ \E k \in LastPrepared :
          /\ k.entity_idx = LastKey.entity_idx
          /\ k.width = LastKey.width
          /\ k.height = LastKey.height
          /\ k.island_bleed # LastKey.island_bleed

\* a step is a prepare call for key k
PreparedStep(k) ==
    /\ k \in DOMAIN builds'
    /\ (k \notin DOMAIN builds \/ builds'[k].calls > builds[k].calls)

\* C6: prepare builds a table only when its key is absent, and a prepare for a key
\* that is present leaves the whole cache unchanged; so no key's table is built twice.
C6_PrepareIdempotent ==
    /\ [](\A k \in DOMAIN builds : builds[k].n = 1 /\ k \in DOMAIN surfel_tables)
    /\ [][\A k \in DOMAIN builds' :
             PreparedStep(k) =>
                 IF k \in DOMAIN surfel_tables
                 THEN surfel_tables' = surfel_tables
                 ELSE /\ DOMAIN surfel_tables' = DOMAIN surfel_tables \cup {k}
                      /\ \A j \in DOMAIN surfel_tables : surfel_tables'[j] = surfel_tables[j]
                      /\ surfel_tables'[k].surf = surface']_vars

\* a key prepared three times, the later times with another surface, built once
C6_Witness ==
    \E k \in DOMAIN builds :
        /\ builds[k].calls = 3
        /\ builds[k].n = 1
        /\ builds[k].last_surf # surfel_tables[k].surf

-----------------------------------------------------------------------------
(* Claims about the state of the runner over its lifetime *)

\* C7: over the lifetime of a runner the keys of the surfel table cache only grow and
\* no stored table is replaced or removed; run() prepares nothing, so from the return
\* of new() on the cache is the cache built at construction.
C7_CacheAppendOnly ==
    /\ [](constructed # None => surfel_tables = Unwrap(constructed).tables)
    /\ [][\A k \in DOMAIN surfel_tables :
             k \in DOMAIN surfel_tables' /\ surfel_tables'[k] = surfel_tables[k]]_vars

\* a finished run with trace passes and lookups, on a cache of several tables
C7_Witness ==
    /\ pc = "done"
    /\ surface >= 2
    /\ lookups # {}
    /\ Cardinality(DOMAIN surfel_tables) >= 2
    /\ surfel_tables = Unwrap(constructed).tables

\* a step of a synthesis pass leaves the fields of the runner as they are
SynthesisStepFrame ==
    pc \in {"synth", "effects"} =>
        UNCHANGED <<entities, unique_substance_names, surface, iteration>>

\* C8: a synthesis pass leaves the baseline entities with their materials, the
\* substance names, the surface and the iteration counter unchanged; every pass starts
\* on a copy equal to the baseline, whatever the passes before replaced; the surface
\* changes only in the trace step.
C8_SynthesisFrame ==
    /\ [](constructed # None =>
             /\ entities = Unwrap(constructed).entities
             /\ unique_substance_names = Unwrap(constructed).names)
    /\ [](pc = "effects" /\ eff = 1 => work = entities)
    /\ [][SynthesisStepFrame]_vars
    /\ [][surface' # surface => pc = "trace"]_vars

\* the third pass of a run has started on the baseline although the passes before
\* have replaced a material
C8_Witness ==
    /\ pc = "done"
    /\ Cardinality(EventsOf("effects")) >= 3
    /\ work # entities
    /\ \E i \in 1..Len(work) : work[i].material # entities[i].material
    /\ entities = Unwrap(constructed).entities

-----------------------------------------------------------------------------
(* SimulationBuilder: fragments appended one after the other *)

\* the fragments supplied: lists and scalars set or left out
ListFragments ==
    {[DefaultSpec EXCEPT !.scenes = sc, !.sources = so, !.effects = ef,
                         !.iterations = it, !.effect_interval = iv] :
        sc \in {<<>>, <<"b.obj", "a.obj">>},
        so \in {<<>>, <<"rain.yml">>},
        ef \in {<<>>, <<Export>>},
        it \in {None, Some(1), Some(2)},
        iv \in {None, Some(3)}}

\* SimulationBuilder::append_spec_fragment
AppendFragment(fragments) ==
    /\ pc = "builder"
    /\ Len(appended) < MaxFragments
    /\ \E f \in fragments :
          /\ builder_spec' = append(builder_spec, f)
          /\ warnings' = warnings \o append_warnings(builder_spec, f)
          /\ appended' = Append(appended, f)
    /\ UNCHANGED <<runnerVars, cacheVars, setupVars, outputs, benchVars, fileVars>>

AppendListFragment == AppendFragment(ListFragments)

\* SimulationBuilder::new
InitMerge ==
    /\ pc = "builder"
    /\ panic = ""
    /\ spec = [effects |-> <<>>, iterations |-> None, effect_interval |-> None]
    /\ entities = <<>>
    /\ unique_substance_names = <<>>
    /\ iteration = 0
    /\ surface = 0
    /\ work = <<>>
    /\ eff = 0
    /\ looped = 0
    /\ events = <<>>
    /\ lookups = {}
    /\ constructed = None
    /\ IdleCache
    /\ IdleBench
    /\ IdleFiles
    /\ outputs = <<>>
    /\ IdleMerge
    /\ IdleSetup

NextMerge == AppendListFragment

SpecMerge == InitMerge /\ [][NextMerge]_vars

\* the lists of a field of the fragments f[1..n], one after the other
RECURSIVE Concatenated(_, _, _)
Concatenated(f, field, n) ==
    IF n = 0 THEN <<>> ELSE Concatenated(f, field, n - 1) \o f[n][field]

IsPrefix(a, b) == Len(a) <= Len(b) /\ SubSeq(b, 1, Len(a)) = a

ListFields == {"scenes", "sources", "effects"}

\* C9: after fragments F1..Fn have been appended, the scenes, sources and effects of
\* the builder's spec are the fragments' lists one after the other in the order
\* supplied, duplicates kept; an append only adds to the end of each list.
C9_ListsConcatenate ==
    /\ [](\A fld \in ListFields :
             builder_spec[fld] = Concatenated(appended, fld, Len(appended)))
    /\ [][\A fld \in ListFields :
             /\ IsPrefix(builder_spec[fld], builder_spec'[fld])
             /\ builder_spec'[fld] =
                   builder_spec[fld] \o appended'[Len(appended')][fld]]_vars

\* the same fragment appended twice: its entries are there twice
C9_Witness ==
    /\ Len(appended) = 2
    /\ builder_spec.scenes = <<"b.obj", "a.obj", "b.obj", "a.obj">>
    /\ builder_spec.sources = <<"rain.yml", "rain.yml">>
    /\ builder_spec.effects = <<Export, Export>>

\* the value of the last of the fragments f[1..n] that defines the field, if any
RECURSIVE LastDefined(_, _, _)
LastDefined(f, field, n) ==
    IF n = 0 THEN None
    ELSE IF f[n][field] # None THEN f[n][field]
    ELSE LastDefined(f, field, n - 1)

\* C10: the merged iteration count and effect interval are the second fragment's value
\* when it defines one, the first's otherwise, and absent when neither defines one.
C10_ScalarsOverride ==
    /\ [](\A fld \in {"iterations", "effect_interval"} :
             builder_spec[fld] = LastDefined(appended, fld, Len(appended)))
    /\ [][\A fld \in {"iterations", "effect_interval"} :
             builder_spec'[fld] =
                 IF appended'[Len(appended')][fld] # None
                 THEN appended'[Len(appended')][fld]
                 ELSE builder_spec[fld]]_vars

\* the second fragment overrides the iteration count and leaves the interval of the first
C10_Witness ==
    /\ Len(appended) = 2
    /\ appended[1].iterations = Some(1)
    /\ appended[2].iterations = Some(2)
    /\ builder_spec.iterations = Some(2)
    /\ appended[1].effect_interval = Some(3)
    /\ appended[2].effect_interval = None
    /\ builder_spec.effect_interval = Some(3)

-----------------------------------------------------------------------------
(* SimulationBuilder: fragments that define or leave out the warned-about scalars *)

WarnFields == {"iterations", "surfel_distance", "log"}

ScalarFragments ==
    {[DefaultSpec EXCEPT !.iterations = it, !.surfel_distance = sd, !.log = lg] :
        it \in {None, Some(1), Some(2)},
        sd \in {None, Some(f32(2)), Some(f32(5)), Some(NaN)},
        lg \in {None, Some("a.log"), Some("b.log")}}

AppendScalarFragment == AppendFragment(ScalarFragments)

NextMergeScalar == AppendScalarFragment

SpecMergeScalar == InitMerge /\ [][NextMergeScalar]_vars

\* how often a field is named in a sequence of warnings
WarnCount(w, fld) == Cardinality({i \in 1..Len(w) : w[i] = fld})

\* both values are defined and compare unequal (an f32 by its own comparison)
DefinedUnequal(fld, first, second) ==
    /\ first # None
    /\ second # None
    /\ IF fld = "surfel_distance" THEN f32_ne(first[1], second[1]) ELSE first # second

\* one merge: per field, one warning and second's value on a conflict, no warning otherwise
WarnStep ==
    LET second == appended'[Len(appended')]
        new == SubSeq(warnings', Len(warnings) + 1, Len(warnings'))
    IN  /\ IsPrefix(warnings, warnings')
        /\ panic' = ""
        /\ \A fld \in WarnFields :
              IF DefinedUnequal(fld, builder_spec[fld], second[fld])
              THEN WarnCount(new, fld) = 1 /\ builder_spec'[fld] = second[fld]
              ELSE WarnCount(new, fld) = 0

SurfelDistanceOnly(hundredths) ==
    [DefaultSpec EXCEPT !.surfel_distance = Some(f32(hundredths))]

\* C11: for the iteration count, the surfel distance and the log target, a merge of two
\* fragments that both define the field with unequal values logs exactly one warning
\* for the field, does not fail and takes second's value; with equal values, or the
\* field defined by at most one of them, it logs no warning for the field. Merging
\* {surfel_distance: 0.02} then {surfel_distance: 0.05} gives 0.05 and one warning.
C11_MergeWarnings ==
    /\ [][WarnStep]_vars
    /\ [](appended = <<SurfelDistanceOnly(2), SurfelDistanceOnly(5)>>
            => /\ builder_spec.surfel_distance = Some(f32(5))
               /\ warnings = <<"surfel_distance">>)

\* the scenario's two fragments have been merged, with its one warning
C11_Witness ==
    /\ appended = <<SurfelDistanceOnly(2), SurfelDistanceOnly(5)>>
    /\ builder_spec.surfel_distance = Some(f32(5))
    /\ Len(warnings) = 1

-----------------------------------------------------------------------------
(* SimulationBuilder: fragments with material to surfel spec mappings *)

MaterialNames == {"iron", "stone", "wood"}

SurfelSpecPaths == {"a.yml", "b.yml"}

\* every mapping of some of the materials to a surfel spec path
MapFragments ==
    {[DefaultSpec EXCEPT !.surfels_by_material = m] :
        m \in UNION {[D -> SurfelSpecPaths] : D \in SUBSET MaterialNames}}

AppendMapFragment == AppendFragment(MapFragments)

NextMergeMap == AppendMapFragment

SpecMergeMap == InitMerge /\ [][NextMergeMap]_vars

\* one merge: the keys of both, second's path on a collision, first's path otherwise
MapStep ==
    LET first == builder_spec.surfels_by_material
        second == appended'[Len(appended')].surfels_by_material
        merged == builder_spec'.surfels_by_material
    IN  /\ DOMAIN merged = DOMAIN first \cup DOMAIN second
        /\ \A k \in DOMAIN second : merged[k] = second[k]
        /\ \A k \in DOMAIN first \ DOMAIN second : merged[k] = first[k]
        /\ warnings' = warnings

\* C12: the merged material to surfel spec mapping has the keys of both fragments; a
\* key of both maps to second's path and no warning is logged for the collision; a
\* key of first alone keeps first's path.
C12_MaterialMapUnion == [][MapStep]_vars

\* iron collides and takes the second path, wood is kept from first, stone comes from second
C12_Witness ==
    /\ Len(appended) = 2
    /\ appended[1].surfels_by_material = [k \in {"iron", "wood"} |-> "a.yml"]
    /\ appended[2].surfels_by_material = [k \in {"iron", "stone"} |-> "b.yml"]
    /\ builder_spec.surfels_by_material =
          [k \in MaterialNames |-> IF k = "wood" THEN "a.yml" ELSE "b.yml"]
    /\ warnings = <<>>

-----------------------------------------------------------------------------
(* SimulationBuilder: fragments with names and descriptions *)

TextFragments ==
    {[DefaultSpec EXCEPT !.name = n, !.description = d] :
        n \in {<<>>, <<" ">>, <<"a">>, <<"b">>, <<" ", "a">>, <<"a", "\n">>, <<"a", " ", "b">>},
        d \in {<<>>, <<"d">>, <<"\n", "d", " ">>}}

AppendTextFragment == AppendFragment(TextFragments)

NextMergeText == AppendTextFragment

SpecMergeText == InitMerge /\ [][NextMergeText]_vars

\* the delimiter of each free text field
Delimiter(fld) == IF fld = "name" THEN <<"-">> ELSE <<"\n", "\n">>

TextFields == {"name", "description"}

\* r is t without its leading and trailing whitespace
IsTrimmed(t, r) ==
    /\ r = <<>> \/ (r[1] \notin Whitespace /\ r[Len(r)] \notin Whitespace)
    /\ \E i \in 1..(Len(t) + 1) : \E j \in 0..Len(t) :
          /\ r = SubSeq(t, i, j)
          /\ \A k \in 1..(i - 1) : t[k] \in Whitespace
          /\ \A k \in (j + 1)..Len(t) : t[k] \in Whitespace

Blank(t) == \A k \in 1..Len(t) : t[k] \in Whitespace

\* one merge of a text field, each side taken without its surrounding whitespace
TextStepTrimmed ==
    \A fld \in TextFields :
        LET first == builder_spec[fld]
            second == appended'[Len(appended')][fld]
            merged == builder_spec'[fld]
        IN  IF Blank(first) /\ Blank(second) THEN merged = <<>>
            ELSE IF Blank(second) THEN IsTrimmed(first, merged)
            ELSE IF Blank(first) THEN IsTrimmed(second, merged)
            ELSE \E a \in {SubSeq(merged, 1, n) : n \in 1..Len(merged)} :
                   /\ IsTrimmed(first, a)
                   /\ \E b \in {SubSeq(merged, n, Len(merged)) : n \in 1..Len(merged)} :
                         IsTrimmed(second, b) /\ merged = a \o Delimiter(fld) \o b

\* one merge of a text field, each side taken as it is written
TextStepVerbatim ==
    \A fld \in TextFields :
        LET first == builder_spec[fld]
            second == appended'[Len(appended')][fld]
            merged == builder_spec'[fld]
        IN  IF Blank(first) /\ Blank(second) THEN merged = <<>>
            ELSE IF Blank(second) THEN merged = first
            ELSE IF Blank(first) THEN merged = second
            ELSE merged = first \o Delimiter(fld) \o second

\* C13 as stated: the merged name and description are the empty text when both sides
\* are empty after trimming, the non-empty side when one is, and first, delimiter,
\* second when both are; the name of a single fragment appended to a fresh builder is
\* the builder's name.
C13_TextMergeVerbatim ==
    /\ [][TextStepVerbatim]_vars
    /\ [](Len(appended) = 1 /\ ~Blank(appended[1].name)
            => builder_spec.name = appended[1].name)

\* C13 amended: as C13, with every side that is used taken without its leading and
\* trailing whitespace.
C13_TextMergeTrimmed ==
    /\ [][TextStepTrimmed]_vars
    /\ [](Len(appended) = 1 => IsTrimmed(appended[1].name, builder_spec.name))

\* a padded name joined to a name, and a padded description alone
C13_Witness ==
    /\ Len(appended) = 2
    /\ appended[1].name = <<"a", "\n">>
    /\ appended[2].name = <<" ", "a">>
    /\ builder_spec.name = <<"a", "-", "a">>
    /\ appended[1].description = <<>>
    /\ appended[2].description = <<"\n", "d", " ">>
    /\ builder_spec.description = <<"d">>

-----------------------------------------------------------------------------
(* append applied to three fragments, grouped from the left and from the right *)

BenchSpec(iterations_csv, tracing_csv, synthesis_csv, setup_csv) ==
    [iterations |-> iterations_csv, tracing |-> tracing_csv, synthesis |-> synthesis_csv,
     setup |-> setup_csv]

\* fragments that each set the fields of one merge policy
AssocFragments ==
    {[DefaultSpec EXCEPT !.name = n, !.description = d] :
        n \in {<<>>, <<"a">>, <<" ", "b">>}, d \in {<<>>, <<"d", "\n">>}}
    \cup {[DefaultSpec EXCEPT !.iterations = it, !.log = lg] :
        it \in {None, Some(1), Some(2)}, lg \in {None, Some("a.log"), Some("b.log")}}
    \cup {[DefaultSpec EXCEPT !.surfel_distance = sd, !.consistent_transport = ct] :
        sd \in {Some(f32(2)), Some(f32(5)), Some(NaN)}, ct \in {None, Some(TRUE), Some(FALSE)}}
    \cup {[DefaultSpec EXCEPT !.scenes = <<"a.obj">>, !.effects = <<Export>>],
          [DefaultSpec EXCEPT !.sources = <<"rain.yml">>, !.effect_interval = Some(3)]}
    \cup {[DefaultSpec EXCEPT !.surfels_by_material = m] :
        m \in UNION {[D -> SurfelSpecPaths] : D \in {{"iron"}, {"iron", "stone"}}}}
    \cup {[DefaultSpec EXCEPT !.benchmark = Some(b)] :
        b \in {BenchSpec(None, None, None, None),
               BenchSpec(Some("i.csv"), None, None, None),
               BenchSpec(Some("j.csv"), Some("t.csv"), None, None),
               BenchSpec(None, None, Some("s.csv"), Some("u.csv"))}}

\* append(append(A, B), C)
MergeLeftFirst ==
    /\ pc = "assoc"
    /\ grouped.left = None
    /\ grouped' = [grouped EXCEPT
          !.left = Some(append(append(appended[1], appended[2]), appended[3]))]
    /\ UNCHANGED <<runnerVars, cacheVars, mergeVars, args, loaded, instance, outputs,
                   benchVars, fileVars>>

\* append(A, append(B, C))
MergeRightFirst ==
    /\ pc = "assoc"
    /\ grouped.right = None
    /\ grouped' = [grouped EXCEPT
          !.right = Some(append(appended[1], append(appended[2], appended[3])))]
    /\ UNCHANGED <<runnerVars, cacheVars, mergeVars, args, loaded, instance, outputs,
                   benchVars, fileVars>>

InitAssoc ==
    /\ pc = "assoc"
    /\ panic = ""
    /\ spec = [effects |-> <<>>, iterations |-> None, effect_interval |-> None]
    /\ entities = <<>>
    /\ unique_substance_names = <<>>
    /\ iteration = 0
    /\ surface = 0
    /\ work = <<>>
    /\ eff = 0
    /\ looped = 0
    /\ events = <<>>
    /\ lookups = {}
    /\ constructed = None
    /\ IdleCache
    /\ IdleBench
    /\ IdleFiles
    /\ outputs = <<>>
    /\ builder_spec = DefaultSpec
    /\ appended \in [1..3 -> AssocFragments]
    /\ warnings = <<>>
    /\ IdleSetup

NextAssoc == MergeLeftFirst \/ MergeRightFirst

SpecAssoc == InitAssoc /\ [][NextAssoc]_vars

\* C14: for all fragments A, B, C the merge of (A merged with B) with C and the merge
\* of A with (B merged with C) are the same spec, field by field.
C14_MergeAssociative ==
    grouped.left # None /\ grouped.right # None
        => \A fld \in DOMAIN DefaultSpec : grouped.left[1][fld] = grouped.right[1][fld]

\* both groupings of a benchmark-less fragment between two fragments with benchmark
\* files have been merged
C14_Witness ==
    /\ appended[1].benchmark = Some(BenchSpec(Some("i.csv"), None, None, None))
    /\ appended[2].benchmark = None
    /\ appended[3].benchmark = Some(BenchSpec(None, None, Some("s.csv"), Some("u.csv")))
    /\ grouped.left = Some([DefaultSpec EXCEPT !.benchmark =
          Some(BenchSpec(Some("i.csv"), None, Some("s.csv"), Some("u.csv")))])
    /\ grouped.right = grouped.left

-----------------------------------------------------------------------------
(* init_simulation_builder: spec files and --spec fragments of the command line *)

\* a fragment argument: a spec file path or an inline spec, with its text
CmdArgs ==
    {[kind |-> "file", text |-> "x.yml"], [kind |-> "file", text |-> "missing.yml"],
     [kind |-> "spec", text |-> "name: y"], [kind |-> "spec", text |-> "name: ["]}

\* the command lines: at least one spec file (the argument is required)
CmdLines ==
    {l \in UNION {[1..n -> CmdArgs] : n \in 1..MaxArgs} :
        \E p \in 1..Len(l) : l[p].kind = "file"}

\* indices_of: the positions of the values of one argument, ascending
RECURSIVE indices_of(_, _, _)
indices_of(line, kind, p) ==
    IF p > Len(line) THEN <<>>
    ELSE (IF line[p].kind = kind THEN <<p>> ELSE <<>>) \o indices_of(line, kind, p + 1)

\* serde_yaml::from_reader / from_str of a fragment: the fragment, or None for an error
parse_fragment(arg) ==
    IF arg.text = "x.yml" THEN Some([DefaultSpec EXCEPT !.name = <<"x">>])
    ELSE IF arg.text = "name: y" THEN Some([DefaultSpec EXCEPT !.name = <<"y">>])
    ELSE None

\* a choice that takes a spec file whenever one is left
advance_files_eagerly(next_file, next_inline) == IsSome(next_file)

\* the match of the loop: TRUE to take the next spec file, FALSE the next inline spec
advance_files(next_file, next_inline) ==
    IF IsSome(next_file) /\ IsSome(next_inline)
    THEN Unwrap(next_file) < Unwrap(next_inline)
    ELSE IsSome(next_file)

\* Peekable::peek
peek(it) == IF it = <<>> THEN None ELSE Some(Head(it))

\* one turn of the loop: append the fragment of the smaller index and advance its iterator
AppendNextArg ==
    /\ pc = "init_builder"
    /\ peek(args.spec_file_paths) # None \/ peek(args.inline_specs) # None
    /\ LET files == advance_files(peek(args.spec_file_paths), peek(args.inline_specs))
           p == IF files THEN Head(args.spec_file_paths) ELSE Head(args.inline_specs)
           fragment == parse_fragment(args.line[p])
       IN  IF fragment = None
           THEN /\ pc' = "builder_failed"
                /\ UNCHANGED <<args, mergeVars, fileVars>>
           ELSE /\ builder_spec' = append(builder_spec, Unwrap(fragment))
                /\ warnings' = warnings \o append_warnings(builder_spec, Unwrap(fragment))
                /\ appended' = Append(appended, Unwrap(fragment))
                /\ args' = [args EXCEPT
                      !.spec_file_paths = IF files THEN Tail(@) ELSE @,
                      !.inline_specs = IF files THEN @ ELSE Tail(@),
                      !.order = Append(@, p)]
                /\ UNCHANGED pc
    /\ UNCHANGED <<panic, spec, entities, unique_substance_names, iteration, surface, work,
                   eff, looped, events, lookups, constructed, cacheVars, grouped, loaded,
                   instance, outputs, benchVars, fileVars>>

\* (None, None) => break, Ok(builder)
ReturnBuilder ==
    /\ pc = "init_builder"
    /\ peek(args.spec_file_paths) = None
    /\ peek(args.inline_specs) = None
    /\ pc' = "builder_ready"
    /\ UNCHANGED <<panic, spec, entities, unique_substance_names, iteration, surface, work,
                   eff, looped, events, lookups, constructed, cacheVars, mergeVars, setupVars,
                   outputs, benchVars, fileVars>>

InitArgs ==
    /\ pc = "init_builder"
    /\ panic = ""
    /\ spec = [effects |-> <<>>, iterations |-> None, effect_interval |-> None]
    /\ entities = <<>>
    /\ unique_substance_names = <<>>
    /\ iteration = 0
    /\ surface = 0
    /\ work = <<>>
    /\ eff = 0
    /\ looped = 0
    /\ events = <<>>
    /\ lookups = {}
    /\ constructed = None
    /\ IdleCache
    /\ IdleBench
    /\ IdleFiles
    /\ outputs = <<>>
    /\ IdleMerge
    /\ grouped = [left |-> None, right |-> None]
    /\ \E line \in CmdLines :
          args = [line |-> line,
                  spec_file_paths |-> indices_of(line, "file", 1),
                  inline_specs |-> indices_of(line, "spec", 1),
                  order |-> <<>>]
    /\ loaded = None
    /\ instance = <<>>

NextArgs == AppendNextArg \/ ReturnBuilder

\* the loop runs on until it breaks or returns an error
SpecArgs == InitArgs /\ [][NextArgs]_vars /\ WF_vars(NextArgs)

\* the command line positions 1..n
Positions(n) == [p \in 1..n |-> p]

\* the fragments of the first n arguments, as read
RECURSIVE FragmentsOf(_, _)
FragmentsOf(line, n) ==
    IF n = 0 THEN <<>> ELSE Append(FragmentsOf(line, n - 1), Unwrap(parse_fragment(line[n])))

\* C15: init_simulation_builder appends the file and the inline fragments in ascending
\* order of their position on the command line, whatever their interleaving, each
\* exactly once, and returns the builder when both argument lists are exhausted (it
\* stops at the first fragment that cannot be read).
C15_CommandLineOrder ==
    /\ [](/\ args.order = Positions(Len(args.order))
          /\ appended = FragmentsOf(args.line, Len(args.order))
          /\ pc = "builder_ready" =>
                /\ Len(args.order) = Len(args.line)
                /\ args.spec_file_paths = <<>>
                /\ args.inline_specs = <<>>)
    /\ <>(pc \in {"builder_ready", "builder_failed"})

\* inline, file, inline, file: all appended in that order
C15_Witness ==
    /\ pc = "builder_ready"
    /\ Len(args.line) = 4
    /\ \A p \in 1..4 : args.line[p].kind = (IF p \in {1, 3} THEN "spec" ELSE "file")
    /\ args.order = <<1, 2, 3, 4>>
    /\ builder_spec.name = <<"y", "-", "x", "-", "y", "-", "x">>

-----------------------------------------------------------------------------
(* builder::instantiate: from the merged spec to the runner *)

\* SurfelRuleSpec
Transfer(from, to, factor) == [kind |-> "Transfer", from |-> from, to |-> to, factor |-> factor]

Deteriorate(from, factor) == [kind |-> "Deteriorate", from |-> from, factor |-> factor]

Deposit(to, amount) == [kind |-> "Deposit", to |-> to, amount |-> amount]

\* SurfelSpec and TonSourceSpec: the fields instantiate reads
SurfelSpec(initial, deposit, rules) == [initial |-> initial, deposit |-> deposit, rules |-> rules]

TonSourceSpec(mesh, initial, absorb) == [mesh |-> mesh, initial |-> initial, absorb |-> absorb]

\* a HashMap<String, f32> with one or two entries (values in hundredths); << >> is the empty map
Map1(k, v) == [n \in {k} |-> v]

Map2(k1, v1, k2, v2) == [n \in {k1, k2} |-> IF n = k1 THEN v1 ELSE v2]

\* the files the resolver finds: surfel specs, source specs, scenes (the materials of
\* their entities, in file order) and emission meshes; any other path does not resolve
SurfelSpecFiles ==
    [p \in {"iron.yml", "wood.yml", "bare.yml"} |->
        IF p = "iron.yml"
        THEN SurfelSpec(Map1("rust", 1), Map2("water", 2, "rust", 3),
                        <<Transfer("water", "rust", 50)>>)
        ELSE IF p = "wood.yml"
        THEN SurfelSpec(<< >>, << >>, <<Deteriorate("moss", 10)>>)
        ELSE SurfelSpec(<< >>, << >>, <<>>)]

SourceSpecFiles ==
    [p \in {"rain.yml", "dry.yml", "lost.yml", "void.yml"} |->
        IF p = "rain.yml" THEN TonSourceSpec("sky.obj", Map1("water", 4), Map1("salt", 5))
        ELSE IF p = "dry.yml" THEN TonSourceSpec("sky.obj", << >>, << >>)
        ELSE IF p = "lost.yml" THEN TonSourceSpec("gone.obj", Map1("water", 4), << >>)
        ELSE TonSourceSpec("void.obj", Map1("water", 4), << >>)]

SceneFiles ==
    [p \in {"shed.obj", "hall.obj", "sky.obj", "void.obj"} |->
        IF p = "shed.obj" THEN <<"iron">>
        ELSE IF p = "hall.obj" THEN <<"stone", "wood", "iron">>
        ELSE IF p = "sky.obj" THEN <<"sky">>
        ELSE <<>>]

\* the position of a name in a list of names, counted from 0, if it is there
position(names, n) ==
    IF \E i \in 1..Len(names) : names[i] = n
    THEN Some((CHOOSE i \in 1..Len(names) :
                  names[i] = n /\ \A j \in 1..(i - 1) : names[j] # n) - 1)
    ELSE None

\* a key extraction that leaves out the names the map does not hold
RECURSIVE extract_keys_present(_, _, _)
extract_keys_present(map, keys, default) ==
    IF keys = <<>> THEN <<>>
    ELSE (IF Head(keys) \in DOMAIN map THEN <<map[Head(keys)]>> ELSE <<>>)
         \o extract_keys_present(map, Tail(keys), default)

\* extract_keys: the map's value of every key in order, the default where it has none
extract_keys(map, keys, default) ==
    [i \in 1..Len(keys) |-> IF keys[i] \in DOMAIN map THEN map[keys[i]] ELSE default]

\* rule_by_spec: the rule with its names replaced by their indices; None for the panic
\* of expect() on a name the table does not hold
rule_by_spec(rule, names) ==
    IF rule.kind = "Transfer"
    THEN IF position(names, rule.from) = None \/ position(names, rule.to) = None
         THEN None
         ELSE Some([kind |-> "Transfer",
                    source_substance_idx |-> Unwrap(position(names, rule.from)),
                    target_substance_idx |-> Unwrap(position(names, rule.to)),
                    factor |-> rule.factor])
    ELSE IF rule.kind = "Deteriorate"
    THEN IF position(names, rule.from) = None THEN None
         ELSE Some([kind |-> "Deteriorate",
                    substance_idx |-> Unwrap(position(names, rule.from)),
                    factor |-> rule.factor])
    ELSE IF position(names, rule.to) = None THEN None
         ELSE Some([kind |-> "Deposit",
                    substance_idx |-> Unwrap(position(names, rule.to)),
                    amount |-> rule.amount])

\* the outcome of instantiate: Ok with what the runner is built from, or the error
Outcome(result, names, ents, sources, surfels, rules, transport) ==
    [result |-> result, unique_substance_names |-> names, entities |-> ents,
     sources |-> sources, surfels |-> surfels, rules |-> rules, transport |-> transport]

Failure(result) == Outcome(result, <<>>, <<>>, <<>>, <<>>, <<>>, "")

\* surfel_specs_by_material_name: the surfel spec of every mapped material
surfel_specs_by_material_name(sp) ==
    IF \E m \in DOMAIN sp.surfels_by_material :
           sp.surfels_by_material[m] \notin DOMAIN SurfelSpecFiles
    THEN [err |-> "Resolve(SurfelSpec)", specs |-> << >>]
    ELSE IF DOMAIN sp.surfels_by_material = {}
    THEN [err |-> "SurfelSpecsMissing", specs |-> << >>]
    ELSE [err |-> "",
          specs |-> [m \in DOMAIN sp.surfels_by_material |->
                        SurfelSpecFiles[sp.surfels_by_material[m]]]]

\* a retain that keeps every entity, whatever the mapping
retain_all(materials, specs) == materials

\* Vec::retain of load_entities: the entities of mapped materials, all with a fallback
retain_mapped(materials, specs) ==
    IF "_" \in DOMAIN specs THEN materials
    ELSE SelectSeq(materials, LAMBDA m : m \in DOMAIN specs)

\* load_entities: the entities of all scenes in order (each named by its material)
RECURSIVE load_entities(_, _)
load_entities(paths, specs) ==
    IF paths = <<>> THEN [err |-> "", entities |-> <<>>]
    ELSE IF Head(paths) \notin DOMAIN SceneFiles THEN [err |-> "Asset", entities |-> <<>>]
    ELSE LET rest == load_entities(Tail(paths), specs)
         IN  [err |-> rest.err,
              entities |-> retain_mapped(SceneFiles[Head(paths)], specs) \o rest.entities]

\* load_source_specs
load_source_specs(sources) ==
    IF \E i \in 1..Len(sources) : sources[i] \notin DOMAIN SourceSpecFiles
    THEN [err |-> "Resolve(TonSourceSpec)", specs |-> <<>>]
    ELSE [err |-> "", specs |-> [i \in 1..Len(sources) |-> SourceSpecFiles[sources[i]]]]

\* a name collection that misses the absorption maps of the sources
substance_name_set_unabsorbed(surfel_specs, source_specs) ==
    UNION {DOMAIN surfel_specs[m].initial \cup DOMAIN surfel_specs[m].deposit :
              m \in DOMAIN surfel_specs}
    \cup UNION {DOMAIN source_specs[i].initial : i \in DOMAIN source_specs}

\* unique_substance_names: the HashSet the names are collected into
substance_name_set(surfel_specs, source_specs) ==
    UNION {DOMAIN surfel_specs[m].initial \cup DOMAIN surfel_specs[m].deposit :
              m \in DOMAIN surfel_specs}
    \cup UNION {DOMAIN source_specs[i].initial \cup DOMAIN source_specs[i].absorb :
                   i \in DOMAIN source_specs}

\* HashSet::into_iter: the orders in which the elements of a set may come
IterationOrders(set) ==
    {order \in [1..Cardinality(set) -> set] :
        \A i, j \in 1..Cardinality(set) : i # j => order[i] # order[j]}

\* build_sources: the initial and absorption vectors of every source, in order; the
\* first source whose mesh does not resolve or has no entity ends it
RECURSIVE build_sources(_, _)
build_sources(source_specs, names) ==
    IF source_specs = <<>> THEN [err |-> "", sources |-> <<>>]
    ELSE IF Head(source_specs).mesh \notin DOMAIN SceneFiles
    THEN [err |-> "Resolve(TonSourceMesh)", sources |-> <<>>]
    ELSE IF SceneFiles[Head(source_specs).mesh] = <<>>
    THEN [err |-> "panic", sources |-> <<>>]
    ELSE LET rest == build_sources(Tail(source_specs), names)
         IN  [err |-> rest.err,
              sources |->
                  <<[substances |-> extract_keys(Head(source_specs).initial, names, 0),
                     pickup_rates |-> extract_keys(Head(source_specs).absorb, names, 0)]>>
                  \o rest.sources]

\* the rules of a list resolved against the table; None when one of them panics
rules_by_spec(rules, names) ==
    IF \E i \in 1..Len(rules) : rule_by_spec(rules[i], names) = None THEN None
    ELSE Some([i \in 1..Len(rules) |-> Unwrap(rule_by_spec(rules[i], names))])

\* the surfel spec of a material: its own, else the fallback "_", else none
surfel_spec_of(material, specs) ==
    IF material \in DOMAIN specs THEN Some(specs[material])
    ELSE IF "_" \in DOMAIN specs THEN Some(specs["_"])
    ELSE None

\* a surface whose surfels count their entities from 1
build_surface_one_based(ents, specs, names, entity_idx) ==
    LET sampled == SelectSeq([i \in 1..Len(ents) |-> i],
                             LAMBDA i : surfel_spec_of(ents[i], specs) # None)
    IN  IF \E n \in DOMAIN sampled :
               rules_by_spec(Unwrap(surfel_spec_of(ents[sampled[n]], specs)).rules, names) = None
        THEN None
        ELSE Some([n \in DOMAIN sampled |->
                     LET surfel_spec == Unwrap(surfel_spec_of(ents[sampled[n]], specs))
                     IN  [entity_idx |-> sampled[n],
                          substances |-> extract_keys(surfel_spec.initial, names, 0),
                          deposition_rates |-> extract_keys(surfel_spec.deposit, names, 0),
                          rules |-> Unwrap(rules_by_spec(surfel_spec.rules, names))]])

\* build_surface: the prototype surfel of every entity that has a surfel spec
RECURSIVE build_surface(_, _, _, _)
build_surface(ents, specs, names, entity_idx) ==
    IF entity_idx >= Len(ents) THEN Some(<<>>)
    ELSE LET surfel_spec == surfel_spec_of(ents[entity_idx + 1], specs)
             rest == build_surface(ents, specs, names, entity_idx + 1)
         IN  IF surfel_spec = None THEN rest
             ELSE IF rules_by_spec(Unwrap(surfel_spec).rules, names) = None THEN None
             ELSE IF rest = None THEN None
             ELSE Some(<<[entity_idx |-> entity_idx,
                          substances |-> extract_keys(Unwrap(surfel_spec).initial, names, 0),
                          deposition_rates |->
                              extract_keys(Unwrap(surfel_spec).deposit, names, 0),
                          rules |-> Unwrap(rules_by_spec(Unwrap(surfel_spec).rules, names))]>>
                       \o Unwrap(rest))

\* the match on spec.transport: the named transport, differential for none
select_transport(transport) ==
    IF transport = None THEN "differential" ELSE Unwrap(transport)

\* the entities as SimulationRunner::new receives them (materials without maps)
runner_entities(ents) ==
    [i \in 1..Len(ents) |-> Entity(ents[i], Material(ents[i], NoMaps))]

\* instantiate, with the order in which the HashSet of names was iterated
instantiate(sp, names) ==
    LET surfel_specs == surfel_specs_by_material_name(sp)
        ents == load_entities(sp.scenes, surfel_specs.specs)
        source_specs == load_source_specs(sp.sources)
        sources == build_sources(source_specs.specs, names)
        surfels == build_surface(ents.entities, surfel_specs.specs, names, 0)
        rules == rules_by_spec(sp.rules, names)
        tables == build_surfel_tables(sp.effects, runner_entities(ents.entities), 0)
    IN  IF surfel_specs.err # "" THEN Failure(surfel_specs.err)
        ELSE IF ents.err # "" THEN Failure(ents.err)
        ELSE IF source_specs.err # "" THEN Failure(source_specs.err)
        ELSE IF names = <<>> THEN Failure("SubstancesMissing")
        ELSE IF sp.effects = <<>> THEN Failure("EffectsMissing")
        ELSE IF sources.err # "" THEN Failure(sources.err)
        ELSE IF sp.surfel_distance = None \/ f32_le(Unwrap(sp.surfel_distance), f32(0))
        THEN Failure("InvalidSurfelDistance")
        ELSE IF surfels = None \/ rules = None THEN Failure("panic")
        ELSE IF tables.panic # "" THEN Failure("panic")
        ELSE Outcome("Ok", names, ents.entities, sources.sources, Unwrap(surfels),
                     Unwrap(rules), select_transport(sp.transport))

\* the names unique_substance_names collects, once the specs are loaded
LoadedNames(sp) ==
    IF surfel_specs_by_material_name(sp).err = "" /\ load_source_specs(sp.sources).err = ""
    THEN substance_name_set(surfel_specs_by_material_name(sp).specs,
                            load_source_specs(sp.sources).specs)
    ELSE {}

\* the merged specs handed to instantiate
InstantiateSpecs ==
    [surfels_by_material :
        {<< >>, Map1("iron", "iron.yml"), Map2("iron", "iron.yml", "wood", "wood.yml"),
         Map2("_", "bare.yml", "iron", "iron.yml"), Map1("iron", "bare.yml"),
         Map2("iron", "iron.yml", "stone", "bare.yml"), Map1("iron", "none.yml")},
     scenes : {<<>>, <<"shed.obj">>, <<"hall.obj", "shed.obj">>, <<"nowhere.obj">>},
     sources : {<<>>, <<"rain.yml">>, <<"dry.yml", "rain.yml">>, <<"lost.yml">>,
                <<"void.yml">>, <<"absent.yml">>},
     effects : {<<>>, <<Export>>, <<Density(1, 1, Within, default_bleed)>>},
     surfel_distance : {None, Some(f32(0)), Some(f32(-1)), Some(f32(2)), Some(NaN)},
     rules : {<<>>, <<Deposit("water", 1)>>, <<Deposit("ash", 1)>>},
     transport : {None, Some("classic"), Some("consistent"), Some("differential")}]

\* SimulationBuilder::build: one call of instantiate
Instantiate ==
    /\ pc = "instantiate"
    /\ Len(instance) < MaxInstantiations
    /\ \E names \in IterationOrders(LoadedNames(loaded)) :
          instance' = Append(instance, instantiate(loaded, names))
    /\ UNCHANGED <<runnerVars, cacheVars, mergeVars, grouped, args, loaded, outputs,
                   benchVars, fileVars>>

InitInstantiate ==
    /\ pc = "instantiate"
    /\ panic = ""
    /\ spec = [effects |-> <<>>, iterations |-> None, effect_interval |-> None]
    /\ entities = <<>>
    /\ unique_substance_names = <<>>
    /\ iteration = 0
    /\ surface = 0
    /\ work = <<>>
    /\ eff = 0
    /\ looped = 0
    /\ events = <<>>
    /\ lookups = {}
    /\ constructed = None
    /\ IdleCache
    /\ IdleBench
    /\ IdleFiles
    /\ outputs = <<>>
    /\ IdleMerge
    /\ grouped = [left |-> None, right |-> None]
    /\ args = None
    /\ loaded \in InstantiateSpecs
    /\ instance = <<>>

NextInstantiate == Instantiate

SpecInstantiate == InitInstantiate /\ [][NextInstantiate]_vars

\* the instantiations that returned a runner
Runners == {i \in 1..Len(instance) : instance[i].result = "Ok"}

Elements(seq) == {seq[i] : i \in 1..Len(seq)}

\* C16: the substance-name table of a runner holds every key of the initial and deposit
\* maps of every loaded surfel spec and of the initial and absorb maps of every loaded
\* source spec, no other name, and no name twice.
C16_SubstanceTable ==
    \A r \in Runners :
        LET names == instance[r].unique_substance_names
        IN  /\ Elements(names) =
                  UNION {DOMAIN SurfelSpecFiles[loaded.surfels_by_material[m]].initial
                         \cup DOMAIN SurfelSpecFiles[loaded.surfels_by_material[m]].deposit :
                            m \in DOMAIN loaded.surfels_by_material}
                  \cup UNION {DOMAIN SourceSpecFiles[loaded.sources[i]].initial
                              \cup DOMAIN SourceSpecFiles[loaded.sources[i]].absorb :
                                 i \in 1..Len(loaded.sources)}
            /\ \A i, j \in 1..Len(names) : i # j => names[i] # names[j]

\* rust is named by two maps of one surfel spec, water by a surfel spec and a source,
\* salt by an absorb map alone: the table has the three names once each
C16_Witness ==
    /\ Runners # {}
    /\ loaded.surfels_by_material = Map1("iron", "iron.yml")
    /\ loaded.sources = <<"dry.yml", "rain.yml">>
    /\ Len(instance[1].unique_substance_names) = 3
    /\ Elements(instance[1].unique_substance_names) = {"rust", "water", "salt"}

\* C17: two instantiations of one merged spec give every substance name the same
\* index: the table's order does not depend on the iteration order of a hash set.
C17_StableTableOrder ==
    \A q, r \in Runners :
        instance[q].unique_substance_names = instance[r].unique_substance_names

\* vec is the map's values aligned to the table, d where the map has no value
Aligned(map, table, vec, d) ==
    /\ Len(vec) = Len(table)
    /\ \A i \in 1..Len(table) :
          vec[i] = IF table[i] \in DOMAIN map THEN map[table[i]] ELSE d

\* the surfel spec file of the entity a prototype surfel was built for
SurfelSpecFor(r, surfel) ==
    LET material == instance[r].entities[surfel.entity_idx + 1]
    IN  IF material \in DOMAIN loaded.surfels_by_material
        THEN SurfelSpecFiles[loaded.surfels_by_material[material]]
        ELSE SurfelSpecFiles[loaded.surfels_by_material["_"]]

\* C18: extract_keys(map, table, d) has the table's length and holds at i the map's
\* value of table[i], or d when the map has none; the initial and absorption vectors
\* of every source and the concentration and deposition vectors of every prototype
\* surfel are these vectors for d = 0, in the table's index space.
C18_AlignedToTable ==
    \A r \in Runners :
        LET table == instance[r].unique_substance_names
        IN  /\ \A d \in {0, 7} : \A map \in {<< >>, Map1("salt", 5), Map2("rust", 1, "ash", 2)} :
                  Aligned(map, table, extract_keys(map, table, d), d)
            /\ Len(instance[r].sources) = Len(loaded.sources)
            /\ \A i \in 1..Len(instance[r].sources) :
                  /\ Aligned(SourceSpecFiles[loaded.sources[i]].initial, table,
                             instance[r].sources[i].substances, 0)
                  /\ Aligned(SourceSpecFiles[loaded.sources[i]].absorb, table,
                             instance[r].sources[i].pickup_rates, 0)
            /\ \A i \in 1..Len(instance[r].surfels) :
                  /\ Aligned(SurfelSpecFor(r, instance[r].surfels[i]).initial, table,
                             instance[r].surfels[i].substances, 0)
                  /\ Aligned(SurfelSpecFor(r, instance[r].surfels[i]).deposit, table,
                             instance[r].surfels[i].deposition_rates, 0)

\* a table of three names: the rain source and the iron surfel have their values at the
\* names' indices and 0.0 elsewhere
C18_Witness ==
    /\ 1 \in Runners
    /\ instance[1].unique_substance_names = <<"salt", "rust", "water">>
    /\ loaded.sources = <<"dry.yml", "rain.yml">>
    /\ instance[1].sources[1].substances = <<0, 0, 0>>
    /\ instance[1].sources[2].substances = <<0, 0, 4>>
    /\ instance[1].sources[2].pickup_rates = <<5, 0, 0>>
    /\ loaded.scenes = <<"shed.obj">>
    /\ instance[1].surfels[1].substances = <<0, 1, 0>>
    /\ instance[1].surfels[1].deposition_rates = <<0, 3, 2>>

\* the names a rule spec refers to
RuleNames(rule) ==
    IF rule.kind = "Transfer" THEN {rule.from, rule.to}
    ELSE IF rule.kind = "Deteriorate" THEN {rule.from}
    ELSE {rule.to}

\* the rules of the merged spec and of every loaded surfel spec
LoadedRules ==
    Elements(loaded.rules)
    \cup UNION {Elements(SurfelSpecFiles[loaded.surfels_by_material[m]].rules) :
                   m \in {k \in DOMAIN loaded.surfels_by_material :
                             loaded.surfels_by_material[k] \in DOMAIN SurfelSpecFiles}}

\* the index of each name of a resolved rule is the name's position in the table
Resolved(rule, built, table) ==
    /\ built.kind = rule.kind
    /\ rule.kind = "Transfer" =>
          /\ table[built.source_substance_idx + 1] = rule.from
          /\ table[built.target_substance_idx + 1] = rule.to
    /\ rule.kind = "Deteriorate" => table[built.substance_idx + 1] = rule.from
    /\ rule.kind = "Deposit" => table[built.substance_idx + 1] = rule.to

\* C19: every spec-wide and every per-material rule is resolved to the indices its
\* names have in the substance-name table; a rule that names a substance the table
\* does not hold stops instantiation, so no runner is returned.
C19_UnknownNameFatal ==
    \A r \in Runners :
        /\ \A rule \in LoadedRules :
              RuleNames(rule) \subseteq Elements(instance[r].unique_substance_names)
        /\ Len(instance[r].rules) = Len(loaded.rules)
        /\ \A i \in 1..Len(loaded.rules) :
              Resolved(loaded.rules[i], instance[r].rules[i],
                       instance[r].unique_substance_names)
        /\ \A i \in 1..Len(instance[r].surfels) :
              LET rules == SurfelSpecFor(r, instance[r].surfels[i]).rules
              IN  /\ Len(instance[r].surfels[i].rules) = Len(rules)
                  /\ \A k \in 1..Len(rules) :
                        Resolved(rules[k], instance[r].surfels[i].rules[k],
                                 instance[r].unique_substance_names)

\* every file the spec refers to is found, and every emission mesh has an entity
AllFilesLoad ==
    /\ \A m \in DOMAIN loaded.surfels_by_material :
          loaded.surfels_by_material[m] \in DOMAIN SurfelSpecFiles
    /\ \A i \in 1..Len(loaded.scenes) : loaded.scenes[i] \in DOMAIN SceneFiles
    /\ \A i \in 1..Len(loaded.sources) :
          /\ loaded.sources[i] \in DOMAIN SourceSpecFiles
          /\ SourceSpecFiles[loaded.sources[i]].mesh \in DOMAIN SceneFiles
          /\ SceneFiles[SourceSpecFiles[loaded.sources[i]].mesh] # <<>>

\* the configuration errors in the order of their checks: each is the outcome when its
\* condition holds, the earlier ones do not and all files load; none returns a runner
ConfigurationErrors(invalid_distance) ==
    \A i \in 1..Len(instance) :
        LET result == instance[i].result
            no_mapping == DOMAIN loaded.surfels_by_material = {}
            no_names == LoadedNames(loaded) = {}
            no_effects == loaded.effects = <<>>
        IN  /\ no_mapping => result = "SurfelSpecsMissing"
            /\ AllFilesLoad /\ ~no_mapping /\ no_names => result = "SubstancesMissing"
            /\ AllFilesLoad /\ ~no_mapping /\ ~no_names /\ no_effects
                  => result = "EffectsMissing"
            /\ AllFilesLoad /\ ~no_mapping /\ ~no_names /\ ~no_effects /\ invalid_distance
                  => result = "InvalidSurfelDistance"
            /\ no_mapping \/ no_names \/ no_effects \/ invalid_distance => result # "Ok"

\* C20 as stated: instantiate fails with SurfelSpecsMissing for an empty material
\* mapping, SubstancesMissing when no loaded spec names a substance, EffectsMissing
\* for an empty effect list and InvalidSurfelDistance for a surfel distance that is
\* absent or not greater than 0; none of these returns a runner.
C20_ConfigurationErrorsNotGreater ==
    ConfigurationErrors(\/ loaded.surfel_distance = None
                        \/ loaded.surfel_distance[1].nan
                        \/ loaded.surfel_distance[1].val <= 0)

\* C20 amended: as C20, with InvalidSurfelDistance for a surfel distance that is
\* absent or less than or equal to 0 (a distance that is not a number is let through).
C20_ConfigurationErrors ==
    ConfigurationErrors(\/ loaded.surfel_distance = None
                        \/ /\ ~loaded.surfel_distance[1].nan
                           /\ loaded.surfel_distance[1].val <= 0)

\* all files load, substances and effects are there, and the distance 0 is rejected
C20_Witness ==
    /\ AllFilesLoad
    /\ loaded.surfels_by_material = Map1("iron", "iron.yml")
    /\ loaded.sources = <<"rain.yml">>
    /\ loaded.effects # <<>>
    /\ loaded.surfel_distance = Some(f32(0))
    /\ Len(instance) = 1
    /\ instance[1].result = "InvalidSurfelDistance"

-----------------------------------------------------------------------------
(* The order of the steps of instantiate *)

\* whether a step of the instantiation, numbered as the steps are listed, fails for
\* the loaded spec, taken that the steps before it did not
StepFails(step) ==
    IF step = 1
    THEN \/ DOMAIN loaded.surfels_by_material = {}
         \/ \E m \in DOMAIN loaded.surfels_by_material :
               loaded.surfels_by_material[m] \notin DOMAIN SurfelSpecFiles
    ELSE IF step = 2
    THEN \E i \in 1..Len(loaded.scenes) : loaded.scenes[i] \notin DOMAIN SceneFiles
    ELSE IF step = 3
    THEN \E i \in 1..Len(loaded.sources) : loaded.sources[i] \notin DOMAIN SourceSpecFiles
    ELSE IF step = 4 THEN LoadedNames(loaded) = {}
    ELSE IF step = 5 THEN loaded.effects = <<>>
    ELSE IF step = 6
    THEN \/ loaded.surfel_distance = None
         \/ /\ ~loaded.surfel_distance[1].nan
            /\ loaded.surfel_distance[1].val <= 0
    ELSE \E i \in 1..Len(loaded.sources) :
            \/ SourceSpecFiles[loaded.sources[i]].mesh \notin DOMAIN SceneFiles
            \/ SceneFiles[SourceSpecFiles[loaded.sources[i]].mesh] = <<>>

\* the outcomes in which a step fails
StepFailures(step) ==
    IF step = 1 THEN {"SurfelSpecsMissing", "Resolve(SurfelSpec)"}
    ELSE IF step = 2 THEN {"Asset"}
    ELSE IF step = 3 THEN {"Resolve(TonSourceSpec)"}
    ELSE IF step = 4 THEN {"SubstancesMissing"}
    ELSE IF step = 5 THEN {"EffectsMissing"}
    ELSE IF step = 6 THEN {"InvalidSurfelDistance"}
    ELSE {"Resolve(TonSourceMesh)", "panic"}

InstantiationSteps == {1, 2, 3, 4, 5, 6, 7}

\* the first step that fails, 0 when none of the seven does
RECURSIVE EarliestFailingStep(_)
EarliestFailingStep(step) ==
    IF step \notin InstantiationSteps THEN 0
    ELSE IF StepFails(step) THEN step
    ELSE EarliestFailingStep(step + 1)

\* C21: when several of the steps 1 surfel specs, 2 scenes, 3 source specs,
\* 4 substances, 5 effects, 6 surfel distance, 7 particle sources would fail,
\* instantiate reports the failure of the earliest of them; an absent or
\* non-positive surfel distance comes before any failure of an emission mesh.
C21_EarliestStepReported ==
    \A i \in 1..Len(instance) :
        EarliestFailingStep(1) # 0
            => instance[i].result \in StepFailures(EarliestFailingStep(1))


\* C22: a spec whose particle-source list is empty is rejected: no instantiation of
\* it returns a runner, and once the surfel specs and scenes are loaded the outcome
\* is the error SourcesMissing.
C22_SourcesMissing ==
    \A i \in 1..Len(instance) :
        loaded.sources = <<>>
            => /\ instance[i].result # "Ok"
               /\ ~StepFails(1) /\ ~StepFails(2)
                     => instance[i].result = "SourcesMissing"


\* the values of the builder's Error enum an instantiation can return
BuilderErrors ==
    {"Parse", "IO", "Asset", "SurfelSpecsMissing", "EffectsMissing", "SourcesMissing",
     "SubstancesMissing", "InvalidSurfelDistance", "Resolve(SurfelSpec)",
     "Resolve(TonSourceSpec)", "Resolve(TonSourceMesh)"}

\* C23: every instantiation that does not return a runner returns an Err value of
\* the builder's Error enum; none ends in a panic, be it for a rule with an unknown
\* substance name, an emission mesh scene without sub-mesh or an effect with the
\* within-radius lookup.
C23_FailuresAreErrors ==
    \A i \in 1..Len(instance) :
        instance[i].result # "Ok" => instance[i].result \in BuilderErrors


-----------------------------------------------------------------------------
(* The entities instantiate loads *)

\* the entities of the scenes of a list, scene after scene and each in load order
RECURSIVE SceneEntities(_)
SceneEntities(paths) ==
    IF paths = <<>> THEN <<>>
    ELSE SceneFiles[Head(paths)] \o SceneEntities(Tail(paths))

\* C24: the entities a runner is built with are, in the order of the scene paths
\* and within a scene in load order, the loaded entities whose material name is a
\* key of the surfel-spec mapping when the mapping has no key "_", and all loaded
\* entities when it has the key "_".
C24_LoadedEntities ==
    \A r \in Runners :
        LET keys == DOMAIN loaded.surfels_by_material
            all == SceneEntities(loaded.scenes)
        IN  /\ "_" \in keys => instance[r].entities = all
            /\ "_" \notin keys
                  => instance[r].entities = SelectSeq(all, LAMBDA m : m \in keys)

\* two scenes, a mapping of iron and stone only: the wood entity in the middle of
\* the first scene is left out, the others keep their order
C24_Witness ==
    /\ loaded.surfels_by_material = Map2("iron", "iron.yml", "stone", "bare.yml")
    /\ loaded.scenes = <<"hall.obj", "shed.obj">>
    /\ Len(instance) = 1
    /\ instance[1].result = "Ok"
    /\ instance[1].entities = <<"stone", "iron", "iron">>


-----------------------------------------------------------------------------
(* The textures of the Density effect *)

\* the textures written at an iteration
OutputsAt(it) == SelectSeq(outputs, LAMBDA o : o.iteration = it)

\* the iterations at which a texture was written
OutputIterations == {outputs[i].iteration : i \in 1..Len(outputs)}

\* one texture of the effect's width and height for every substance of the table and
\* every entity of the baseline, and no other
OnePerPair(written, effect) ==
    /\ Len(written) = Len(unique_substance_names) * Len(entities)
    /\ \A s \in 1..Len(unique_substance_names), idx \in 0..(Len(entities) - 1) :
          \E i \in 1..Len(written) :
              /\ written[i].file.substance = unique_substance_names[s]
              /\ written[i].file.id = idx
              /\ written[i].file.entity = entities[idx + 1].name
              /\ written[i].file.width = effect.width
              /\ written[i].file.height = effect.height

\* C28: each synthesis pass of a Density effect writes exactly one texture of the
\* configured width and height per pair of a substance of the table and an entity of
\* the baseline; with two substances and iterations = 1, a run with one Density
\* effect ends with density output at exactly the iterations 0 and 1, which for a
\* baseline of one entity are 4 textures in total.
C28_DensityTextures ==
    (Len(spec.effects) = 1 /\ spec.effects[1].kind = "Density")
        => /\ \A it \in OutputIterations : OnePerPair(OutputsAt(it), spec.effects[1])
           /\ (pc \in {"done", "panicked"} /\ iterations(spec) = 1
               /\ Len(unique_substance_names) = 2)
                  => /\ OutputIterations = {0, 1}
                     /\ Len(entities) = 1 => Len(outputs) = 4


-----------------------------------------------------------------------------
(* Bencher: a worker thread that writes the measured durations to a sink.    *)
(* A Benchmark borrows its Bencher, so flush(&mut self) and the drop of the  *)
(* Bencher are only possible while no Benchmark is alive.                    *)

MaxBenchmarks == 3

MaxFlushes == 2

\* the durations a measurement can give, in milliseconds
Durations == {100, 1015}

Persist(duration) == [kind |-> "Persist", duration |-> duration]

Done == [kind |-> "Done"]

\* writeln!(sink, "{}.{:09}", secs, nanos): the seconds and the nanoseconds of a duration
line(duration) ==
    [secs |-> duration \div 1000, nanos |-> (duration % 1000) * 1000000]

\* a receiver that hands out the newest message first
recv_newest(messages) ==
    [msg |-> messages[Len(messages)], rest |-> SubSeq(messages, 1, Len(messages) - 1)]

\* Receiver::recv on a channel that holds a message: the oldest message, and the rest
recv(messages) == [msg |-> Head(messages), rest |-> Tail(messages)]

\* a join that does not wait for the thread
join_detached(thread) == TRUE

\* JoinHandle::join returns once the thread has finished
join(thread) == thread = "terminated"

\* a take that leaves the handle where it is
take_cloned(worker_handle) == [taken |-> worker_handle, left |-> worker_handle]

\* Option::take on worker_handle (TRUE for Some(handle))
take(worker_handle) == [taken |-> worker_handle, left |-> FALSE]

\* Bencher::bench, and Benchmark::new for the handle it returns
Bench ==
    /\ pc = "bencher"
    /\ bencher.owner = "live"
    /\ measured.benched < MaxBenchmarks
    /\ IF ~bencher.worker_handle
       THEN /\ bencher' = [bencher EXCEPT !.owner = "panicked"]
            /\ measured' = [measured EXCEPT !.benched = @ + 1]
            /\ UNCHANGED benchmarks
       ELSE LET handle == Len(measured.created) + 1
            IN  /\ benchmarks' = benchmarks \cup {handle}
                /\ measured' = [measured EXCEPT !.benched = @ + 1,
                                                !.created = Append(@, handle)]
                /\ UNCHANGED bencher
    /\ UNCHANGED <<runnerVars, cacheVars, mergeVars, setupVars, outputs, channel, sink,
                   worker, fileVars>>

\* Drop for Benchmark: the elapsed time is sent to the worker, or, when the clock
\* does not give it (None), an error is logged
DropBenchmark ==
    /\ pc = "bencher"
    /\ bencher.owner = "live"
    /\ \E handle \in benchmarks, elapsed \in {None} \cup {Some(d) : d \in Durations} :
          /\ benchmarks' = benchmarks \ {handle}
          /\ measured' = [measured EXCEPT
                             !.dropped = Append(@, [handle |-> handle, elapsed |-> elapsed])]
          /\ IF elapsed = None
             THEN UNCHANGED <<channel, bencher>>
             ELSE IF worker = "terminated"
             THEN /\ bencher' = [bencher EXCEPT !.owner = "panicked"]
                  /\ UNCHANGED channel
             ELSE /\ channel' = Append(channel, Persist(Unwrap(elapsed)))
                  /\ UNCHANGED bencher
    /\ UNCHANGED <<runnerVars, cacheVars, mergeVars, setupVars, outputs, sink, worker, fileVars>>

\* the body of Bencher::flush up to the join: waiting is where the caller waits for
\* the worker, returned is where it goes on when there is nothing to wait for
flush(waiting, returned) ==
    LET handle == take(bencher.worker_handle)
        sends == handle.taken /\ worker # "terminated"
    IN  /\ measured' = [measured EXCEPT !.flushes = @ + 1,
                                        !.done = IF sends THEN @ + 1 ELSE @]
        /\ channel' = IF sends THEN Append(channel, Done) ELSE channel
        /\ bencher' = [worker_handle |-> handle.left,
                       owner |-> IF ~handle.taken THEN returned
                                 ELSE IF sends THEN waiting
                                 ELSE "panicked"]

\* Bencher::flush called by the owner
Flush ==
    /\ pc = "bencher"
    /\ bencher.owner = "live"
    /\ benchmarks = {}
    /\ measured.flushes < MaxFlushes
    /\ flush("flush", "live")
    /\ UNCHANGED <<runnerVars, cacheVars, mergeVars, setupVars, outputs, sink, worker,
                   benchmarks, fileVars>>

\* Drop for Bencher
DropBencher ==
    /\ pc = "bencher"
    /\ bencher.owner = "live"
    /\ benchmarks = {}
    /\ flush("drop", "dropped")
    /\ UNCHANGED <<runnerVars, cacheVars, mergeVars, setupVars, outputs, sink, worker,
                   benchmarks, fileVars>>

\* handle.join() of flush returns
Join ==
    /\ pc = "bencher"
    /\ bencher.owner \in {"flush", "drop"}
    /\ join(worker)
    /\ bencher' = [bencher EXCEPT !.owner = IF @ = "flush" THEN "live" ELSE "dropped"]
    /\ UNCHANGED <<runnerVars, cacheVars, mergeVars, setupVars, outputs, channel, sink,
                   worker, benchmarks, measured, fileVars>>

\* persist_benchmarks: one turn of `while let Ok(Msg::Persist(duration)) = rx.recv()`,
\* which ends the thread for Done and when every sender is gone
Worker ==
    /\ pc = "bencher"
    /\ worker = "running"
    /\ IF channel # <<>>
       THEN LET received == recv(channel)
            IN  /\ channel' = received.rest
                /\ IF received.msg.kind = "Persist"
                   THEN /\ sink' = Append(sink, line(received.msg.duration))
                        /\ UNCHANGED worker
                   ELSE /\ worker' = "terminated"
                        /\ UNCHANGED sink
       ELSE /\ bencher.owner = "dropped"
            /\ benchmarks = {}
            /\ worker' = "terminated"
            /\ UNCHANGED <<channel, sink>>
    /\ UNCHANGED <<runnerVars, cacheVars, mergeVars, setupVars, outputs, bencher,
                   benchmarks, measured, fileVars>>

\* Bencher::new has returned: the worker runs, nothing is measured
InitBench ==
    /\ pc = "bencher"
    /\ panic = ""
    /\ spec = [effects |-> <<>>, iterations |-> None, effect_interval |-> None]
    /\ entities = <<>>
    /\ unique_substance_names = <<>>
    /\ iteration = 0
    /\ surface = 0
    /\ work = <<>>
    /\ eff = 0
    /\ looped = 0
    /\ events = <<>>
    /\ lookups = {}
    /\ constructed = None
    /\ outputs = <<>>
    /\ surfel_tables = EmptyCache
    /\ builds = << >>
    /\ lookup_result = None
    /\ calls = 0
    /\ IdleMerge
    /\ IdleSetup
    /\ IdleFiles
    /\ bencher = [worker_handle |-> TRUE, owner |-> "live"]
    /\ channel = <<>>
    /\ sink = <<>>
    /\ worker = "running"
    /\ benchmarks = {}
    /\ measured = [created |-> <<>>, dropped |-> <<>>, benched |-> 0, flushes |-> 0,
                   done |-> 0]

NextBench == Bench \/ DropBenchmark \/ Flush \/ DropBencher \/ Join \/ Worker

\* the worker thread is scheduled, and a join returns once its thread has finished
SpecBench == InitBench /\ [][NextBench]_vars /\ WF_vars(Worker) /\ WF_vars(Join)


\* the handles dropped so far whose elapsed time was sent to the worker, in drop order
Sent == SelectSeq(measured.dropped, LAMBDA d : d.elapsed # None)

\* the lines of the handles whose elapsed time was sent
Lines(dropped) == [i \in 1..Len(dropped) |-> line(Unwrap(dropped[i].elapsed))]

\* the sink holds the lines of the first handles of a sequence, and of all of them
\* once the worker has terminated
Persisted(dropped) ==
    /\ Len(sink) <= Len(dropped)
    /\ \A i \in 1..Len(sink) :
          dropped[i].elapsed # None /\ sink[i] = line(Unwrap(dropped[i].elapsed))
    /\ worker = "terminated" => Len(sink) = Len(dropped)

Flushed == measured.flushes > 0 /\ bencher.owner \notin {"flush", "drop"}

\* C26: a flush, called explicitly or by the drop of the Bencher, is followed by the
\* end of the worker thread and the return of flush, and when a flush has returned
\* every sample sent before it is in the sink exactly once, in order; three completed
\* measurements and the drop of the Bencher leave three lines.
C26_FlushPersistsAll ==
    /\ [](Flushed => worker = "terminated" /\ sink = Lines(Sent))
    /\ (bencher.owner \in {"flush", "drop"})
           ~> (worker = "terminated" /\ bencher.owner \in {"live", "dropped"})

\* three measurements and the drop of the Bencher: three lines in the sink
C26_Witness ==
    /\ Len(measured.created) = 3
    /\ Len(Sent) = 3
    /\ bencher.owner = "dropped"
    /\ Len(sink) = 3
    /\ sink = Lines(Sent)

\* a call of bench on a flushed Bencher panics, makes no handle and sends nothing
BenchAfterFlush ==
    (measured.flushes > 0 /\ measured'.benched > measured.benched)
        => /\ bencher'.owner = "panicked"
           /\ channel' = channel
           /\ benchmarks' = benchmarks

\* a call of flush on a flushed Bencher, or its drop, sends nothing and returns
FlushAfterFlush ==
    (measured.flushes > 0 /\ measured'.flushes > measured.flushes)
        => /\ channel' = channel
           /\ measured'.done = measured.done
           /\ bencher'.owner \in {"live", "dropped"}

\* C27: a flushed Bencher stays shut down: its worker handle is gone for good, bench
\* panics and sends no sample, and a further flush or the drop of the Bencher sends
\* no second Done message and returns without waiting.
C27_FlushedStaysShutDown ==
    /\ [](measured.flushes > 0 => ~bencher.worker_handle)
    /\ [](measured.done <= 1)
    /\ [][BenchAfterFlush]_vars
    /\ [][FlushAfterFlush]_vars

\* two calls of flush, one Done message, and a call of bench that panicked
C27_Witness ==
    /\ measured.flushes = 2
    /\ measured.done = 1
    /\ measured.benched = Len(measured.created) + 1
    /\ bencher.owner = "panicked"


-----------------------------------------------------------------------------
(* Spec-wide rules and the transport mode, from the fragments to instantiate *)

\* fragments that give a complete spec and differ in their rules and transport mode
RuleFragments ==
    {[rules |-> r, transport |-> t]
         @@ [DefaultSpec EXCEPT !.surfels_by_material = Map1("iron", "iron.yml"),
                                !.effects = <<Export>>,
                                !.surfel_distance = Some(f32(2))] :
        r \in {<<>>, <<Deposit("water", 1)>>, <<Deposit("rust", 2)>>},
        t \in {None, Some("classic"), Some("consistent"), Some("differential")}}

AppendRuleFragment == AppendFragment(RuleFragments)

\* the spec SimulationBuilder::build hands to instantiate: append builds the merged
\* spec from its own list of fields, which names neither rules nor transport, so
\* these two are what Default gives
built_spec(merged) == merged @@ [rules |-> <<>>, transport |-> None]

\* SimulationBuilder::build
Build ==
    /\ pc = "builder"
    /\ appended # <<>>
    /\ pc' = "built"
    /\ \E names \in IterationOrders(LoadedNames(built_spec(builder_spec))) :
          instance' = Append(instance, instantiate(built_spec(builder_spec), names))
    /\ UNCHANGED <<panic, spec, entities, unique_substance_names, iteration, surface, work,
                   eff, looped, events, lookups, constructed, cacheVars, mergeVars, grouped,
                   args, loaded, outputs, benchVars, fileVars>>

NextMergeRules == AppendRuleFragment \/ Build

SpecMergeRules == InitMerge /\ [][NextMergeRules]_vars

\* C29: the merged spec's rule list is the rules of the appended fragments, fragment
\* after fragment, and these are the spec-wide rules a runner is built with.
C29_RulesConcatenate ==
    /\ built_spec(builder_spec).rules = Concatenated(appended, "rules", Len(appended))
    /\ \A r \in Runners :
          Len(instance[r].rules) = Len(Concatenated(appended, "rules", Len(appended)))

\* C30: the merged transport mode is that of the last fragment that defines one, none
\* when no fragment does; a runner is built with that transport, and with the
\* differential transport when no fragment defines one.
C30_TransportOverrides ==
    /\ built_spec(builder_spec).transport = LastDefined(appended, "transport", Len(appended))
    /\ \A r \in Runners :
          instance[r].transport =
              IF LastDefined(appended, "transport", Len(appended)) = None
              THEN "differential"
              ELSE Unwrap(LastDefined(appended, "transport", Len(appended)))


(***************************************************************************)
(* Filename patterns of the effects (runner.rs).  A pattern is a sequence  *)
(* of segments, a segment being one of the tokens or literal text;         *)
(* str::replace exchanges every occurrence of a token for its value.       *)
(***************************************************************************)
Tokens == {"{iteration}", "{id}", "{entity}", "{substance}", "{datetime}"}

replace(pattern, from, to) ==
    [i \in DOMAIN pattern |-> IF pattern[i] = from THEN to ELSE pattern[i]]

TokensIn(path) == {path[i] : i \in DOMAIN path} \cap Tokens

tex_filename(tex_pattern, it, ent_idx, name, substance_name, datetime) ==
    replace(replace(replace(replace(replace(tex_pattern,
        "{iteration}", ToString(it)),
        "{id}", ToString(ent_idx)),
        "{entity}", name),
        "{substance}", substance_name),
        "{datetime}", datetime)

CreatedFile(kind, pattern, path) == [kind |-> kind, pattern |-> pattern, path |-> path]

export_scene(obj_pattern, mtl_pattern, it, substance, datetime) ==
    IF obj_pattern # None /\ mtl_pattern # None
    THEN LET obj_filename ==
                 replace(replace(replace(Unwrap(obj_pattern),
                     "{iteration}", ToString(it)),
                     "{substance}", substance),
                     "{datetime}", datetime)
             mtl_filename ==
                 replace(replace(replace(Unwrap(mtl_pattern),
                     "{iteration}", ToString(it)),
                     "{substance}", substance),
                     "{datetime}", datetime)
         IN  [panic |-> FALSE,
              files |-> <<CreatedFile("obj", Unwrap(obj_pattern), obj_filename),
                          CreatedFile("mtl", Unwrap(mtl_pattern), mtl_filename)>>]
    ELSE IF obj_pattern = None /\ mtl_pattern = None
    THEN [panic |-> FALSE, files |-> <<>>]
    ELSE [panic |-> TRUE, files |-> <<>>]

export_surfels_iteration_only(surfel_obj_pattern, it, datetime) ==
    <<CreatedFile("surfels", surfel_obj_pattern,
                  replace(surfel_obj_pattern, "{iteration}", ToString(it)))>>

export_surfels(surfel_obj_pattern, it, datetime) ==
    <<CreatedFile("surfels", surfel_obj_pattern,
                  replace(replace(surfel_obj_pattern,
                      "{iteration}", ToString(it)),
                      "{datetime}", datetime))>>

\* perform_density: per substance, one texture per entity, then the scene.
RECURSIVE density_files(_, _, _, _, _, _, _, _)
density_files(files, names, ents, s, tex_pattern, obj_pattern, mtl_pattern, it) ==
    IF s > Len(names) THEN files
    ELSE LET textures ==
                 [ent_idx \in 1..Len(ents) |->
                     CreatedFile("tex", tex_pattern,
                         tex_filename(tex_pattern, it, ent_idx - 1, ents[ent_idx],
                                      names[s], "2018-06-01"))]
             scene == export_scene(obj_pattern, mtl_pattern, it, names[s], "2018-06-01")
         IN  IF scene.panic THEN files \o textures
             ELSE density_files(files \o textures \o scene.files, names, ents, s + 1,
                                tex_pattern, obj_pattern, mtl_pattern, it)

PatternOrder == <<"{datetime}", "{iteration}", "{id}", "{entity}", "{substance}">>

PatternOf(tokens) ==
    <<"out/">> \o SelectSeq(PatternOrder, LAMBDA t : t \in tokens) \o <<".ext">>

Patterns == {PatternOf(tokens) : tokens \in SUBSET Tokens}

PatternOptions == {None} \cup {Some(p) : p \in Patterns}

EntityNames == <<"iron", "stone">>

IdleRunner ==
    /\ panic = ""
    /\ spec = [effects |-> <<>>, iterations |-> None, effect_interval |-> None]
    /\ entities = <<>>
    /\ unique_substance_names = <<>>
    /\ iteration = 0
    /\ surface = 0
    /\ work = <<>>
    /\ eff = 0
    /\ looped = 0
    /\ events = <<>>
    /\ lookups = {}
    /\ constructed = None

InitPaths ==
    /\ pc = "paths"
    /\ IdleRunner
    /\ IdleCache
    /\ IdleMerge
    /\ IdleSetup
    /\ IdleBench
    /\ outputs = <<>>
    /\ bases = <<>>
    /\ resolved = <<>>
    /\ created = <<>>
    /\ blended = <<>>

PathsUnchanged ==
    UNCHANGED <<panic, spec, entities, unique_substance_names, iteration, surface, work, eff,
                looped, events, lookups, constructed, cacheVars, mergeVars, setupVars,
                outputs, benchVars, bases, resolved, blended>>

DensityPaths ==
    /\ pc = "paths"
    /\ \E tex_pattern \in Patterns, obj_pattern \in PatternOptions,
          mtl_pattern \in PatternOptions, it \in 0..RunIterations :
           created' = density_files(<<>>, SubstanceNames, EntityNames, 1,
                                    tex_pattern, obj_pattern, mtl_pattern, it)
    /\ pc' = "created"
    /\ PathsUnchanged

BlendPath ==
    /\ pc = "paths"
    /\ \E tex_pattern \in Patterns, it \in 0..RunIterations,
          entity_idx \in 1..Len(EntityNames), substance_idx \in 1..Len(SubstanceNames) :
           created' = <<CreatedFile("tex", tex_pattern,
                            tex_filename(tex_pattern, it, entity_idx - 1,
                                         EntityNames[entity_idx],
                                         SubstanceNames[substance_idx], "2018-06-01"))>>
    /\ pc' = "created"
    /\ PathsUnchanged

ExportPaths ==
    /\ pc = "paths"
    /\ \E obj_pattern \in PatternOptions, mtl_pattern \in PatternOptions,
          it \in 0..RunIterations :
           created' = export_scene(obj_pattern, mtl_pattern, it, "all", "2018-06-01").files
    /\ pc' = "created"
    /\ PathsUnchanged

DumpSurfelsPath ==
    /\ pc = "paths"
    /\ \E obj_pattern \in Patterns, it \in 0..RunIterations :
           created' = export_surfels(obj_pattern, it, "2018-06-01")
    /\ pc' = "created"
    /\ PathsUnchanged

NextPaths == DensityPaths \/ BlendPath \/ ExportPaths \/ DumpSurfelsPath

SpecPaths == InitPaths /\ [][NextPaths]_vars

\* The tokens each kind of output file substitutes.
Substituted(kind) ==
    CASE kind = "tex" -> Tokens
      [] kind \in {"obj", "mtl"} -> {"{iteration}", "{substance}", "{datetime}"}
      [] kind = "surfels" -> {"{iteration}", "{datetime}"}

\* C31 as stated: no created path of any effect contains one of the five
\* literal tokens.
C31_NoTokenInCreatedPath ==
    \A i \in DOMAIN created : TokensIn(created[i].path) = {}

\* C31: a texture path of Density and Layer contains none of the five tokens;
\* an OBJ or MTL path of a scene export contains none of {iteration},
\* {substance}, {datetime} and keeps {id} and {entity} literally; the
\* DumpSurfels path contains none of {iteration}, {datetime} and keeps {id},
\* {entity} and {substance} literally.
C31_SubstitutedPerKind ==
    \A i \in DOMAIN created :
        TokensIn(created[i].path)
            = TokensIn(created[i].pattern) \ Substituted(created[i].kind)

C31_Witness ==
    \E i, j, k \in DOMAIN created :
        /\ created[i].kind = "tex"
        /\ TokensIn(created[i].pattern) = Tokens
        /\ created[j].kind = "obj"
        /\ TokensIn(created[j].pattern) = Tokens
        /\ created[k].kind = "mtl"
        /\ "{iteration}" \in TokensIn(created[k].pattern)


(***************************************************************************)
(* Resolver (files/resolv.rs).  A path is a flag for a leading root and    *)
(* the sequence of its components; the file system is the set of the       *)
(* directories and the set of the files that exist, each in canonical      *)
(* form.  The working directory is /work.                                  *)
(***************************************************************************)
MaxResolves == 2

Path(absolute, comps) == [absolute |-> absolute, comps |-> comps]

Cwd == <<"work">>

Dirs == {<<>>, <<"work">>, <<"work", "tex">>, <<"lib">>}

Files ==
    {<<"work", "a.png">>, <<"work", "tex", "a.png">>, <<"work", "tex", "c.png">>,
     <<"lib", "a.png">>, <<"lib", "b.png">>,
     <<"work", "sim.yml">>, <<"work", "tex", "wood.yml">>, <<"lib", "base.yml">>}

\* Path::canonicalize: resolves . and .. component by component from the
\* root (from the working directory for a relative path); fails when a
\* component does not exist or a component is looked up in a file.
RECURSIVE walk(_, _, _)
walk(at, comps, i) ==
    IF i > Len(comps) THEN Some(at)
    ELSE IF at \notin Dirs THEN None
    ELSE IF comps[i] = "." THEN walk(at, comps, i + 1)
    ELSE IF comps[i] = ".."
    THEN walk(IF at = <<>> THEN at ELSE SubSeq(at, 1, Len(at) - 1), comps, i + 1)
    ELSE IF Append(at, comps[i]) \in Dirs \cup Files
    THEN walk(Append(at, comps[i]), comps, i + 1)
    ELSE None

canonicalize(path) ==
    LET found == walk(IF path.absolute THEN <<>> ELSE Cwd, path.comps, 1)
    IN  IF found = None THEN None ELSE Some(Path(TRUE, Unwrap(found)))

\* PathBuf::push of a relative path.
push(base, search_path) == Path(base.absolute, base.comps \o search_path.comps)

add_base(bs, base) ==
    IF base.comps = <<>> /\ ~base.absolute THEN [err |-> "EmptyBasePath", bases |-> bs]
    ELSE IF canonicalize(base) = None THEN [err |-> "InaccessibleBasePath", bases |-> bs]
    ELSE LET canonical == Unwrap(canonicalize(base))
         IN  [err |-> "",
              bases |-> IF \E i \in DOMAIN bs : bs[i] = canonical
                        THEN bs ELSE Append(bs, canonical)]

Resolution(kind, path) == [kind |-> kind, path |-> path]

\* The loop of resolve over the bases, from base i on.
RECURSIVE resolve_attempts(_, _, _)
resolve_attempts(bs, search_path, i) ==
    IF i > Len(bs) THEN Resolution("NotFound", None)
    ELSE LET resolve_attempt == canonicalize(push(bs[i], search_path))
         IN  IF resolve_attempt # None THEN Resolution("Ok", resolve_attempt)
             ELSE resolve_attempts(bs, search_path, i + 1)

resolve_newest_base_first(bs, search_path_param) ==
    IF search_path_param.comps = <<>> /\ ~search_path_param.absolute
    THEN Resolution("EmptySearchPath", None)
    ELSE IF search_path_param.absolute /\ canonicalize(search_path_param) # None
    THEN Resolution("Ok", canonicalize(search_path_param))
    ELSE resolve_attempts([i \in DOMAIN bs |-> bs[Len(bs) + 1 - i]],
                          Path(FALSE, search_path_param.comps), 1)

resolve(bs, search_path_param) ==
    IF search_path_param.comps = <<>> /\ ~search_path_param.absolute
    THEN Resolution("EmptySearchPath", None)
    ELSE IF search_path_param.absolute /\ canonicalize(search_path_param) # None
    THEN Resolution("Ok", canonicalize(search_path_param))
    ELSE resolve_attempts(bs, Path(FALSE, search_path_param.comps), 1)

BasePaths ==
    {Path(FALSE, <<>>), Path(FALSE, <<".">>), Path(FALSE, <<"tex">>), Path(TRUE, <<"lib">>),
     Path(FALSE, <<"tex", "..", "..", "lib">>), Path(TRUE, <<"nowhere">>)}

SearchPaths ==
    {Path(FALSE, <<>>), Path(FALSE, <<"a.png">>), Path(FALSE, <<"b.png">>),
     Path(FALSE, <<"c.png">>), Path(FALSE, <<"zz.png">>), Path(FALSE, <<".", "a.png">>),
     Path(FALSE, <<"..", "lib", "b.png">>), Path(TRUE, <<"lib", "a.png">>),
     Path(TRUE, <<"work", "tex", "..", "a.png">>), Path(TRUE, <<"a.png">>),
     Path(TRUE, <<"c.png">>), Path(TRUE, <<"zz.png">>)}

ResolveCall(at, search_path, bs, result) ==
    [at |-> at, search_path |-> search_path, bases |-> bs, result |-> result]

InitResolve ==
    /\ pc = "resolver"
    /\ IdleRunner
    /\ IdleCache
    /\ IdleMerge
    /\ IdleSetup
    /\ IdleBench
    /\ outputs = <<>>
    /\ bases = <<>>
    /\ resolved = <<>>
    /\ created = <<>>
    /\ blended = <<>>

ResolveUnchanged ==
    UNCHANGED <<pc, panic, spec, entities, unique_substance_names, iteration, surface, work,
                eff, looped, events, lookups, constructed, cacheVars, mergeVars, setupVars,
                outputs, benchVars, created, blended>>

AddBase ==
    /\ pc = "resolver"
    /\ \E base \in BasePaths : bases' = add_base(bases, base).bases
    /\ UNCHANGED resolved
    /\ ResolveUnchanged

Resolve ==
    /\ pc = "resolver"
    /\ Len(resolved) < MaxResolves
    /\ \E search_path \in SearchPaths :
           resolved' = Append(resolved,
                              ResolveCall("resolve", search_path, bases, resolve(bases, search_path)))
    /\ UNCHANGED bases
    /\ ResolveUnchanged

NextResolve == AddBase \/ Resolve

SpecResolve == InitResolve /\ [][NextResolve]_vars

\* The positions of the bases under which the relative form of the search
\* path exists.
Containing(bs, search_path) ==
    {i \in DOMAIN bs : canonicalize(push(bs[i], Path(FALSE, search_path.comps))) # None}

IsEmptyPath(path) == path.comps = <<>> /\ ~path.absolute

IsExistingAbsolute(path) == path.absolute /\ canonicalize(path) # None

\* C32: resolve rejects an empty search path whatever the bases; it returns
\* an existing absolute path in canonical form without consulting a base;
\* every other path it takes relative to the bases and returns the match
\* under the earliest-registered base under which it exists, NotFound when
\* there is none, so always when no base is registered.
C32_ResolveContract ==
    \A n \in DOMAIN resolved :
        LET r == resolved[n]
            containing == Containing(r.bases, r.search_path)
        IN  /\ IsEmptyPath(r.search_path) => r.result = Resolution("EmptySearchPath", None)
            /\ IsExistingAbsolute(r.search_path)
                   => r.result = Resolution("Ok", canonicalize(r.search_path))
            /\ (~IsEmptyPath(r.search_path) /\ ~IsExistingAbsolute(r.search_path))
                   => IF containing = {}
                      THEN r.result = Resolution("NotFound", None)
                      ELSE \E i \in containing :
                               /\ \A j \in containing : i <= j
                               /\ r.result.kind = "Ok"
                               /\ Unwrap(r.result.path).comps
                                      = Unwrap(canonicalize(Path(TRUE, r.bases[i].comps
                                            \o r.search_path.comps))).comps
            /\ (r.bases = <<>> /\ ~IsExistingAbsolute(r.search_path))
                   => r.result.kind \in {"EmptySearchPath", "NotFound"}

\* Every case has happened: a file found under the second of two bases that
\* both contain it not being returned, a file in the working directory not
\* found without a base, an absolute existing path resolved without a base,
\* a pseudo-absolute path found under a base, an empty path rejected with
\* bases registered.
C32_Witness ==
    /\ \E n \in DOMAIN resolved :
           /\ Cardinality(Containing(resolved[n].bases, resolved[n].search_path)) >= 2
           /\ resolved[n].bases[1] = Path(TRUE, <<"work", "tex">>)
           /\ resolved[n].search_path = Path(TRUE, <<"a.png">>)
           /\ resolved[n].result = Resolution("Ok", Some(Path(TRUE, <<"work", "tex", "a.png">>)))
    /\ \E n \in DOMAIN resolved :
           \/ /\ resolved[n].bases = <<>>
              /\ resolved[n].search_path = Path(FALSE, <<"a.png">>)
              /\ resolved[n].result.kind = "NotFound"
           \/ /\ resolved[n].bases = <<>>
              /\ resolved[n].search_path = Path(TRUE, <<"work", "tex", "..", "a.png">>)
              /\ resolved[n].result = Resolution("Ok", Some(Path(TRUE, <<"work", "a.png">>)))
           \/ /\ resolved[n].bases # <<>>
              /\ resolved[n].result.kind = "EmptySearchPath"


(***************************************************************************)
(* The resolver of SimulationBuilder (builder/builder.rs): bases holds     *)
(* self.resolv; resolved records the resolution of each fragment file and  *)
(* of a path the merged specification references, resolved at build().     *)
(***************************************************************************)
local_resolver == add_base(<<>>, Path(TRUE, Cwd)).bases

parent(path) == Path(path.absolute, SubSeq(path.comps, 1, Len(path.comps) - 1))

resolver_for(resolv, spec_path) ==
    IF Len(spec_path.comps) > 1 \/ (spec_path.absolute /\ Len(spec_path.comps) = 1)
    THEN add_base(resolv, parent(spec_path))
    ELSE [err |-> "", bases |-> resolv]

FragmentPaths ==
    {Path(FALSE, <<"sim.yml">>), Path(FALSE, <<"tex", "wood.yml">>),
     Path(TRUE, <<"lib", "base.yml">>), Path(FALSE, <<"wood.yml">>),
     Path(FALSE, <<"missing", "sim.yml">>)}

InitBuilderPaths ==
    /\ pc = "files"
    /\ IdleRunner
    /\ IdleCache
    /\ IdleMerge
    /\ IdleSetup
    /\ IdleBench
    /\ outputs = <<>>
    /\ bases = local_resolver
    /\ resolved = <<>>
    /\ created = <<>>
    /\ blended = <<>>

BuilderPathsUnchanged ==
    UNCHANGED <<panic, spec, entities, unique_substance_names, iteration, surface, work,
                eff, looped, events, lookups, constructed, cacheVars, mergeVars, setupVars,
                outputs, benchVars, created, blended>>

AddBasePath ==
    /\ pc = "files"
    /\ \E base \in BasePaths :
           LET added == add_base(bases, base)
           IN  /\ bases' = added.bases
               /\ pc' = IF added.err = "" THEN pc ELSE "error"
    /\ UNCHANGED resolved
    /\ BuilderPathsUnchanged

AppendSpecFragmentFile ==
    /\ pc = "files"
    /\ Len(resolved) < MaxFragments
    /\ \E simulation_spec_file \in FragmentPaths :
           LET resolver == resolver_for(bases, simulation_spec_file)
               spec_path == resolve(resolver.bases, simulation_spec_file)
           IN  IF resolver.err # ""
               THEN /\ pc' = "error"
                    /\ UNCHANGED resolved
               ELSE /\ resolved' = Append(resolved,
                                      ResolveCall("fragment", simulation_spec_file,
                                                  resolver.bases, spec_path))
                    /\ pc' = IF spec_path.kind = "Ok" THEN pc ELSE "error"
    /\ UNCHANGED bases
    /\ BuilderPathsUnchanged

\* build(): instantiate resolves a referenced path with self.resolv.
BuildResolve ==
    /\ pc = "files"
    /\ \E search_path \in SearchPaths :
           resolved' = Append(resolved,
                              ResolveCall("build", search_path, bases, resolve(bases, search_path)))
    /\ pc' = "built"
    /\ UNCHANGED bases
    /\ BuilderPathsUnchanged

NextBuilderPaths == AddBasePath \/ AppendSpecFragmentFile \/ BuildResolve

SpecBuilderPaths == InitBuilderPaths /\ [][NextBuilderPaths]_vars

\* The bases bs followed by the directories of the fragment files appended
\* in the calls 1..n, in the order of the calls.
RECURSIVE WithFragmentDirs(_, _, _)
WithFragmentDirs(bs, calls_, n) ==
    IF n = 0 THEN bs
    ELSE LET before == WithFragmentDirs(bs, calls_, n - 1)
         IN  IF calls_[n].at = "fragment" /\ calls_[n].result.kind = "Ok"
             THEN add_base(before, parent(Unwrap(calls_[n].result.path))).bases
             ELSE before

\* C33: a path referenced by the merged specification resolves at build()
\* as an existing absolute path, else under the working directory, else
\* under the directories added with add_base_path, else under the
\* directories D1..Dn of the appended fragment files in the order of
\* appending.
C33_FragmentDirsSearchedAtBuild ==
    \A n \in DOMAIN resolved :
        resolved[n].at = "build"
            => resolved[n].result
                   = resolve(WithFragmentDirs(resolved[n].bases, resolved, n - 1),
                             resolved[n].search_path)


-----------------------------------------------------------------------------
(* The effects of one synthesis pass and the working copy of the entities.   *)
(* created holds, per pass, the scenes that Export and Density persisted;    *)
(* the src of a texture is the position of the effect that wrote it, 0 for   *)
(* a texture of the baseline.                                                *)

\* the Layer effects declared before position e that replace channel ch of
\* the baseline entity i
LayersBefore(e, i, ch) ==
    {k \in 1..(e - 1) :
        /\ spec.effects[k].kind = "Layer"
        /\ is_entity_applicable_for_materials(entities[i], spec.effects[k].materials)
        /\ spec.effects[k].blends[ch] # None}

ExportedBy(kind) ==
    {n \in DOMAIN created : spec.effects[created[n].scene.effect].kind = kind}

\* C34: an Export persists, for every entity and channel, the texture written
\* by the last Layer effect declared before it that replaces that channel of
\* the entity, and the baseline's map where there is none (so in particular
\* whatever Layer effects follow it and whatever Density effects precede it);
\* the scene of a Density holds the baseline's entities under their names,
\* each with nothing but the density texture of this effect.
C34_EffectsInOrderOnSharedCopy ==
    /\ \A n \in ExportedBy("Export") :
           LET scene == created[n].scene
           IN  /\ Len(scene.entities) = Len(entities)
               /\ \A i \in DOMAIN entities, ch \in DOMAIN NoMaps :
                      LET persisted == scene.entities[i].material.maps[ch]
                          layers == LayersBefore(scene.effect, i, ch)
                      IN  IF layers = {}
                          THEN persisted = entities[i].material.maps[ch]
                          ELSE /\ persisted # None
                               /\ layers = {k \in layers : k <= Unwrap(persisted).src}
                               /\ Unwrap(persisted).src \in layers
    /\ \A n \in ExportedBy("Density") :
           LET scene == created[n].scene
               effect == spec.effects[scene.effect]
           IN  /\ Len(scene.entities) = Len(entities)
               /\ \A i \in DOMAIN entities :
                      /\ scene.entities[i].name = entities[i].name
                      /\ scene.entities[i].material.maps
                             = [NoMaps EXCEPT !["albedo"] =
                                   Some(Tex(effect.width, effect.height, scene.effect))]

\* a pass of <<Layer, Export>> has persisted an entity whose albedo map the
\* Layer effect replaced
C34_Witness ==
    /\ \E n \in ExportedBy("Export") :
           /\ created[n].scene.effect = 2
           /\ \E i \in DOMAIN entities : LayersBefore(2, i, "albedo") = {1}
    /\ Len(spec.effects) = 2


-----------------------------------------------------------------------------
(* Layer effects that select entities by material name *)

LayerInputs ==
    { Layer(<<"iron">>, "rust", Nearest(1), default_bleed,
            [NoBlends EXCEPT !["albedo"] = Some(BlendSized)]),
      Layer(<<"wood", "_">>, "rust", Nearest(1), default_bleed,
            [NoBlends EXCEPT !["roughness"] = Some(BlendSized)]),
      Layer(<<>>, "humidity", Nearest(2), default_bleed,
            [NoBlends EXCEPT !["normal"] = Some(BlendSized)]),
      Layer(<<"wood", "stone">>, "rust", Nearest(1), default_bleed,
            [NoBlends EXCEPT !["albedo"] = Some(BlendSized)]),
      Layer(<<"wood">>, "rust", Nearest(1), default_bleed,
            [NoBlends EXCEPT !["albedo"] = Some(BlendSized)]) }

InitLayer ==
    InitRunner(UNION {[1..n -> LayerInputs] : n \in 1..MaxEffects}, EntityLists,
               {Some(default_iterations)}, {None})

SpecLayer == InitLayer /\ [][Next]_vars

\* the entity indices for which build_surfel_tables prepares a table on
\* behalf of one effect
PreparedFor(effect) ==
    {k.entity_idx :
        k \in DOMAIN PrepareEntities([panic |-> "", tables |-> EmptyCache, built |-> FALSE],
                                     effect, entities, 0, surface).tables}

\* the positions of the working copy whose material a step has replaced
Replaced == {i \in DOMAIN work : work'[i].material # work[i].material}

LayerStep ==
    /\ pc = "effects"
    /\ spec.effects[eff].kind = "Layer"
    /\ eff' = eff + 1

LayerReplacesNamed ==
    LayerStep =>
        LET materials == {spec.effects[eff].materials[i] :
                             i \in DOMAIN spec.effects[eff].materials}
            selected == {i \in DOMAIN work :
                            \/ materials = {}
                            \/ "_" \in materials
                            \/ work[i].material.name \in materials}
        IN  /\ DOMAIN work' = DOMAIN work
            /\ Replaced = selected
            /\ \A i \in DOMAIN work : work'[i].name = work[i].name
            /\ PreparedFor(spec.effects[eff]) = {i - 1 : i \in selected}

\* C35: a Layer effect replaces the material of exactly the entities of the
\* working copy whose material name is in its material list, of all entities
\* when the list is empty or contains _, every other entity keeps its
\* material; build_surfel_tables prepares tables for exactly these entities.
C35_LayerSelectsByMaterial == [][LayerReplacesNamed]_vars

\* a Layer for iron has replaced the material of the iron entity and left the
\* stone entity of the same scene alone
C35_Witness ==
    /\ Len(spec.effects) = 1
    /\ spec.effects[1].materials = <<"iron">>
    /\ pc = "done"
    /\ Len(work) = 2
    /\ \E i, j \in DOMAIN work :
           /\ work[i].material # entities[i].material
           /\ work[j].material = entities[j].material


-----------------------------------------------------------------------------
(* make_guided_blend and blend_output_size as functions of a blend and the   *)
(* original map of the material's channel.                                   *)

MaxStops == 2

BlendStop(cenith, tex) == [cenith |-> cenith, tex |-> tex]

\* the configured stops from stop i on; panics at the first stop that has
\* neither a sample nor an original map to fall back to
RECURSIVE configured_stops(_, _, _, _)
configured_stops(stops, blend, original_map, i) ==
    IF i > Len(blend.stops) THEN [panic |-> "", stops |-> stops]
    ELSE LET tex == OrElse(blend.stops[i].sample, original_map)
         IN  IF tex = None THEN [panic |-> "stop_without_texture", stops |-> <<>>]
             ELSE configured_stops(Append(stops, BlendStop(blend.stops[i].cenith, Unwrap(tex))),
                                   blend, original_map, i + 1)

make_guided_blend_always_implicit(blend, original_map) ==
    IF original_map = None /\ blend.stops = <<>>
    THEN [panic |-> "no_stops_no_original", stops |-> <<>>]
    ELSE configured_stops(IF original_map # None
                          THEN <<BlendStop(0, Unwrap(original_map))>>
                          ELSE <<>>,
                          blend, original_map, 1)

\* SimulationRunner::make_guided_blend: the stops handed to GuidedBlend
make_guided_blend(blend, original_map) ==
    IF original_map = None /\ blend.stops = <<>>
    THEN [panic |-> "no_stops_no_original", stops |-> <<>>]
    ELSE configured_stops(IF original_map # None
                             /\ ~\E i \in DOMAIN blend.stops : blend.stops[i].cenith = 0
                          THEN <<BlendStop(0, Unwrap(original_map))>>
                          ELSE <<>>,
                          blend, original_map, 1)

\* sample textures carry the number of their file as src, the original map 0
SampleInputs == {None, Some(Tex(1, 1, 1)), Some(Tex(1, 3, 2)), Some(Tex(2, 1, 3))}

StopInputs == {Stop(cenith, sample) : cenith \in {0, 1}, sample \in SampleInputs}

StopLists == UNION {[1..n -> StopInputs] : n \in 0..MaxStops}

OriginalMaps == {None, Some(Tex(1, 2, 0)), Some(Tex(2, 2, 0))}

SizeInputs == {None, Some(1), Some(3)}

InitBlend ==
    /\ pc = "blend"
    /\ IdleRunner
    /\ IdleCache
    /\ IdleMerge
    /\ IdleSetup
    /\ IdleBench
    /\ IdleFiles
    /\ outputs = <<>>

BlendUnchanged ==
    UNCHANGED <<panic, spec, entities, unique_substance_names, iteration, surface, work,
                eff, looped, events, lookups, constructed, cacheVars, mergeVars, setupVars,
                outputs, benchVars, bases, resolved, created>>

BlendCall(call, blend, original_map, result) ==
    [call |-> call, blend |-> blend, original_map |-> original_map, result |-> result]

MakeGuidedBlend ==
    /\ pc = "blend"
    /\ \E stops \in StopLists, original_map \in OriginalMaps :
           LET blend == Blend(None, None, stops)
           IN  blended' = <<BlendCall("make_guided_blend", blend, original_map,
                                      make_guided_blend(blend, original_map))>>
    /\ pc' = "blended"
    /\ BlendUnchanged

BlendOutputSize ==
    /\ pc = "blend"
    /\ \E width \in SizeInputs, height \in SizeInputs, stops \in StopLists,
          original_tex_path \in OriginalMaps :
           LET blend == Blend(width, height, stops)
           IN  blended' = <<BlendCall("blend_output_size", blend, original_tex_path,
                                      blend_output_size(blend, original_tex_path))>>
    /\ pc' = "blended"
    /\ BlendUnchanged

NextBlend == MakeGuidedBlend \/ BlendOutputSize

SpecBlend == InitBlend /\ [][NextBlend]_vars

CallsOf(call) == {n \in DOMAIN blended : blended[n].call = call}

\* C36: the stop list starts with the original texture at level 0 if and
\* only if the material has a texture for the channel and no configured stop
\* has cenith 0; the configured stops follow in declaration order, a stop
\* without sample with the original texture; the call is fatal exactly when
\* there is neither an original texture nor a configured stop, or a stop
\* without sample and no original texture.
C36_GuidedBlendStops ==
    \A n \in CallsOf("make_guided_blend") :
        LET configured == blended[n].blend.stops
            original == blended[n].original_map
            result == blended[n].result
            implicit == original # None /\ \A i \in DOMAIN configured : configured[i].cenith # 0
            offset == IF implicit THEN 1 ELSE 0
            fatal == \/ original = None /\ configured = <<>>
                     \/ original = None /\ \E i \in DOMAIN configured : configured[i].sample = None
        IN  /\ result.panic # "" <=> fatal
            /\ ~fatal =>
                  /\ Len(result.stops) = offset + Len(configured)
                  /\ implicit => result.stops[1] = BlendStop(0, Unwrap(original))
                  /\ \A i \in DOMAIN configured :
                         /\ result.stops[offset + i].cenith = configured[i].cenith
                         /\ result.stops[offset + i].tex
                                = IF configured[i].sample # None
                                  THEN Unwrap(configured[i].sample) ELSE Unwrap(original)
            /\ result.panic = make_guided_blend_panic(blended[n].blend, original)

\* a list with the implicit stop and a stop that falls back to the original
\* texture, and a list without the implicit stop because a stop is at 0
C36_Witness ==
    \E n \in CallsOf("make_guided_blend") :
        /\ blended[n].original_map # None
        /\ Len(blended[n].blend.stops) = 2
        /\ \/ /\ Len(blended[n].result.stops) = 3
              /\ blended[n].blend.stops[1].sample = None
           \/ /\ Len(blended[n].result.stops) = 2
              /\ blended[n].blend.stops[2].cenith = 0

Dimensions(tex) == <<tex.w, tex.h>>

-----------------------------------------------------------------------------
(* Benchmark samples of a run with the iteration, tracing and synthesis      *)
(* targets configured: events records a sample when its handle is dropped.   *)

Samples(kind) == Cardinality(EventsOf(kind))

\* the iterations of 1..n after whose trace pass the effects are scheduled
ScheduledIterations(n) ==
    {i \in 1..n :
        \/ spec.effect_interval # None /\ i % Unwrap(spec.effect_interval) = 0
        \/ i = n}

C39_RunEndsForEveryInterval ==
    /\ pc # "panicked"
    /\ iteration \in 0..iterations(spec)
    /\ \A i, j \in EventsOf("trace") : i < j => events[i].it < events[j].it
    /\ pc = "done" =>
          /\ iteration = iterations(spec)
          /\ {events[j].it : j \in EventsOf("trace")} = 1..iterations(spec)
          /\ Cardinality(EventsOf("trace")) = iterations(spec)
          /\ iterations(spec) = 0 => Cardinality(EventsOf("effects")) = 1


-----------------------------------------------------------------------------
(* The owning-entity index of the surfels *)

\* the surfel tables that SimulationRunner::new prepares for a Density effect
\* over the baseline of a runner
BaselineTables(r) ==
    build_surfel_tables(<<Density(1, 1, Nearest(1), default_bleed)>>,
                        runner_entities(instance[r].entities), 0).tables

\* C40: the entity index of every surfel is a position, counted from 0, of
\* the entity list the runner holds as baseline; the surfel carries the
\* concentrations and deposition rates of the surfel spec of the entity at
\* that position; the surfels come in the order of the baseline, one
\* prototype per entity; and the key of a surfel table of the runner with
\* the same index holds the table of the same entity.
C40_SurfelEntityIndex ==
    \A r \in Runners :
        LET baseline == instance[r].entities
            names == instance[r].unique_substance_names
            surfels == instance[r].surfels
            specs == [m \in DOMAIN loaded.surfels_by_material |->
                         SurfelSpecFiles[loaded.surfels_by_material[m]]]
        IN  /\ \A n \in DOMAIN surfels :
                   /\ surfels[n].entity_idx \in 0..(Len(baseline) - 1)
                   /\ LET material == baseline[surfels[n].entity_idx + 1]
                          own == IF material \in DOMAIN specs THEN specs[material]
                                 ELSE specs["_"]
                      IN  /\ surfels[n].substances = extract_keys(own.initial, names, 0)
                          /\ surfels[n].deposition_rates = extract_keys(own.deposit, names, 0)
                   /\ \A k \in DOMAIN BaselineTables(r) :
                          k.entity_idx = surfels[n].entity_idx
                              => BaselineTables(r)[k].of = baseline[surfels[n].entity_idx + 1]
            /\ \A m, n \in DOMAIN surfels :
                   m < n => surfels[m].entity_idx < surfels[n].entity_idx
            /\ {surfels[n].entity_idx : n \in DOMAIN surfels} = 0..(Len(baseline) - 1)
            /\ {k.entity_idx : k \in DOMAIN BaselineTables(r)} = 0..(Len(baseline) - 1)

\* the iron entity of hall.obj is the third entity of its scene and, the wood
\* entity being left out, the second of the baseline: its surfel has index 1
\* and the concentrations of iron.yml
C40_Witness ==
    /\ loaded.surfels_by_material = Map2("iron", "iron.yml", "stone", "bare.yml")
    /\ loaded.scenes = <<"hall.obj", "shed.obj">>
    /\ Len(instance) = 1
    /\ instance[1].result = "Ok"
    /\ Len(instance[1].surfels) = 3
    /\ instance[1].surfels[2].entity_idx = 1
    /\ instance[1].entities[2] = "iron"
    /\ instance[1].surfels[2].substances # instance[1].surfels[1].substances

=============================================================================
